---- MODULE Spec2Model ----
(***************************************************************************)
(* The Euphoriae native audio effects engine (AudioEngine): its parameter  *)
(* store, the processAudio effects chain and the processing state that     *)
(* survives between render calls.                                          *)
(*                                                                         *)
(* C++ float values are modelled as fixed-point integers: the float v is   *)
(* the integer v * Scale (0.95f is 9500), with the IEEE-754 special values *)
(* +Inf, -Inf and NaN as three integers outside the finite range.  Every   *)
(* float operation of the source goes through the F* operators below, so   *)
(* that division by zero, Inf * 0 and comparisons with NaN behave as they  *)
(* do in the compiled code.                                                *)
(***************************************************************************)
EXTENDS Integers, Sequences, FiniteSets, TLC

\* ------------------------------------------------------------------------
\* float arithmetic
\* ------------------------------------------------------------------------

Scale == 10^4

PosInf == 2^30

NegInf == -(2^30)

NaN == 2^30 + 1

IsNaN(x) == x = NaN

IsInf(x) == x = PosInf \/ x = NegInf

IsFinite(x) == ~IsNaN(x) /\ ~IsInf(x)

AbsInt[n \in Int] == IF n < 0 THEN -n ELSE n

\* n / d rounded to the nearest integer (d > 0), as a float operation rounds
RoundDiv[n \in Int, d \in Int] ==
    IF n >= 0 THEN (n + d \div 2) \div d ELSE -((-n + d \div 2) \div d)

\* a * b of two finite floats; the larger factor is split so that the
\* intermediate product stays within the integers the checker computes with
MulFix[a \in Int, b \in Int] ==
    LET x == IF AbsInt[a] >= AbsInt[b] THEN AbsInt[a] ELSE AbsInt[b]
        y == IF AbsInt[a] >= AbsInt[b] THEN AbsInt[b] ELSE AbsInt[a]
        m == (x \div Scale) * y + RoundDiv[(x % Scale) * y, Scale]
    IN  IF (a < 0) = (b < 0) THEN m ELSE -m

\* a / b of two finite floats, b # 0
DivFix[a \in Int, b \in Int] ==
    LET x == AbsInt[a]
        y == AbsInt[b]
        q == (x \div y) * Scale + RoundDiv[(x % y) * Scale, y]
    IN  IF (a < 0) = (b < 0) THEN q ELSE -q

FNeg[a \in Int] == IF IsNaN(a) THEN NaN ELSE -a

FAdd[a \in Int, b \in Int] ==
    IF IsNaN(a) \/ IsNaN(b) THEN NaN
    ELSE IF IsInf(a) THEN (IF IsInf(b) /\ b # a THEN NaN ELSE a)
    ELSE IF IsInf(b) THEN b
    ELSE a + b

FSub[a \in Int, b \in Int] == FAdd[a, FNeg[b]]

FMul[a \in Int, b \in Int] ==
    IF IsNaN(a) \/ IsNaN(b) THEN NaN
    ELSE IF IsInf(a) \/ IsInf(b)
         THEN (IF a = 0 \/ b = 0 THEN NaN
               ELSE IF (a > 0) = (b > 0) THEN PosInf ELSE NegInf)
    ELSE MulFix[a, b]

FDiv[a \in Int, b \in Int] ==
    IF IsNaN(a) \/ IsNaN(b) THEN NaN
    ELSE IF IsInf(a)
         THEN (IF IsInf(b) THEN NaN
               ELSE IF (a > 0) = (b >= 0) THEN PosInf ELSE NegInf)
    ELSE IF IsInf(b) THEN 0
    ELSE IF b = 0
         THEN (IF a = 0 THEN NaN ELSE IF a > 0 THEN PosInf ELSE NegInf)
    ELSE DivFix[a, b]

\* the comparisons of C++: false whenever an operand is NaN
FLt[a \in Int, b \in Int] == ~IsNaN(a) /\ ~IsNaN(b) /\ a < b

FGt[a \in Int, b \in Int] == FLt[b, a]

FAbs[a \in Int] == IF IsNaN(a) THEN NaN ELSE AbsInt[a]

\* std::max(a, b) is (a < b) ? b : a, std::min(a, b) is (b < a) ? b : a
FMax[a \in Int, b \in Int] == IF FLt[a, b] THEN b ELSE a

FMin[a \in Int, b \in Int] == IF FLt[b, a] THEN b ELSE a

\* std::clamp(v, lo, hi) is (v < lo) ? lo : (hi < v) ? hi : v
StdClamp[v \in Int, lo \in Int, hi \in Int] == IF FLt[v, lo] THEN lo ELSE IF FLt[hi, v] THEN hi ELSE v

\* static_cast<int>(float): truncation toward zero
ToInt[x \in Int] == IF x >= 0 THEN x \div Scale ELSE -((-x) \div Scale)

\* int -> float
ToFloat(n) == n * Scale

\* ------------------------------------------------------------------------
\* <cmath>: exp, log, pow, tanh, sqrt in fixed point
\* ------------------------------------------------------------------------

\* e^n for n = 0..11, as floats
ExpIntTab ==
    << 10000, 27183, 73891, 200855, 545982, 1484132, 4034288, 10966332,
       29809580, 81030839, 220264658, 598741417 >>

\* the Taylor series of e^f from its k-th term on, 0 <= f < 1
ExpTerms[f \in Int, k \in Int, term \in Int] ==
    IF term = 0 THEN 0
    ELSE term + ExpTerms[f, k + 1, RoundDiv[term * f, Scale * k]]

\* e^x for a finite x >= 0; beyond e^11 the result leaves the finite range
ExpPos[x \in Int] ==
    IF x \div Scale >= Len(ExpIntTab) THEN PosInf
    ELSE MulFix[ExpIntTab[x \div Scale + 1], ExpTerms[x % Scale, 1, Scale]]

\* std::exp
Exp[x \in Int] ==
    IF IsNaN(x) THEN NaN
    ELSE IF x = PosInf THEN PosInf
    ELSE IF x = NegInf THEN 0
    ELSE IF x >= 0 THEN ExpPos[x]
    ELSE FDiv[Scale, ExpPos[-x]]

\* ln a for a finite a > 0: halve or double a into [1, 2), then the series
\* ln a = 2 (z + z^3/3 + z^5/5 + z^7/7) with z = (a - 1) / (a + 1)
LnReduce[a \in Int, acc \in Int] ==
    IF a >= 2 * Scale THEN LnReduce[RoundDiv[a, 2], acc + 6931]
    ELSE IF a < Scale THEN LnReduce[a * 2, acc - 6931]
    ELSE LET z  == DivFix[a - Scale, a + Scale]
             z2 == MulFix[z, z]
             z3 == MulFix[z2, z]
             z5 == MulFix[z3, z2]
             z7 == MulFix[z5, z2]
         IN  acc + 2 * (z + RoundDiv[z3, 3] + RoundDiv[z5, 5] + RoundDiv[z7, 7])

Ln[a \in Int] == LnReduce[a, 0]

\* std::pow(a, b)
Pow[a \in Int, b \in Int] ==
    IF b = 0 \/ a = Scale THEN Scale
    ELSE IF IsNaN(a) \/ IsNaN(b) THEN NaN
    ELSE IF IsInf(b)
         THEN (IF AbsInt[a] = Scale THEN Scale
               ELSE IF (AbsInt[a] > Scale) = (b = PosInf) THEN PosInf ELSE 0)
    ELSE IF a = PosInf THEN (IF b > 0 THEN PosInf ELSE 0)
    ELSE IF a = 0 THEN (IF b > 0 THEN 0 ELSE PosInf)
    ELSE IF a < 0 THEN NaN
    ELSE Exp[MulFix[b, Ln[a]]]

\* std::tanh: |tanh x| rounds to 1 from |x| = 5.5 on
Tanh[x \in Int] ==
    IF IsNaN(x) THEN NaN
    ELSE IF x >= 55000 THEN Scale
    ELSE IF x <= -55000 THEN -Scale
    ELSE IF x >= 0 THEN Scale - DivFix[2 * Scale, ExpPos[2 * x] + Scale]
    ELSE -(Scale - DivFix[2 * Scale, ExpPos[-2 * x] + Scale])

ISqrtIter[n \in Int, g \in Int] ==
    LET h == (g + n \div g) \div 2 IN IF h >= g THEN g ELSE ISqrtIter[n, h]

\* std::sqrt
Sqrt[x \in Int] ==
    IF IsNaN(x) \/ x < 0 THEN NaN
    ELSE IF x = PosInf THEN PosInf
    ELSE IF x = 0 THEN 0
    ELSE ISqrtIter[x * Scale, x * Scale]

\* ------------------------------------------------------------------------
\* effect parameters (audio_engine.h) and their setters
\* ------------------------------------------------------------------------

kNumEqualizerBands == 10

\* mLoudnessGain and mDynamicRange are stored by setLoudnessGain and
\* setDynamicRange; their member initialisers are not in audio_engine.h
DefaultLoudnessGain == 0

DefaultDynamicRange == Scale

\* the member initialisers of the std::atomic parameters
DefaultParams ==
    [ mVolume              |-> 10000,
      mBassBoost           |-> 0,
      mVirtualizer         |-> 0,
      mCompressorStrength  |-> 0,
      mCompressorThreshold |-> -100000,
      mCompressorRatio     |-> 40000,
      mCompressorAttack    |-> 100,
      mCompressorRelease   |-> 1000,
      mLimiterCeiling      |-> 9500,
      mSurround3D          |-> 0,
      mRoomSize            |-> 5000,
      mSurroundLevel       |-> 5000,
      mSurroundMode        |-> 0,
      mHeadphoneSurround   |-> FALSE,
      mHeadphoneType       |-> 0,
      mClarity             |-> 0,
      mTubeWarmth          |-> 0,
      mSpectrumExtension   |-> 0,
      mTrebleBoost         |-> 0,
      mVolumeLeveler       |-> 0,
      mStereoBalance       |-> 0,
      mChannelSeparation   |-> 5000,
      mReverbPreset        |-> 0,
      mReverbWet           |-> 0,
      mTempo               |-> 10000,
      mPitchSemitones      |-> 0,
      mPitchRatio          |-> 10000,
      mEqualizerBands      |-> [b \in 0 .. kNumEqualizerBands - 1 |-> 0],
      mLoudnessGain        |-> DefaultLoudnessGain,
      mDynamicRange        |-> DefaultDynamicRange ]

\* std::clamp on int
ClampInt(v, lo, hi) == IF v < lo THEN lo ELSE IF hi < v THEN hi ELSE v

\* setVolume clamping to [0, 1]
setVolumeUnit(p, volume) == [p EXCEPT !.mVolume = StdClamp[volume, 0, 10000]]

setVolume(p, volume) == [p EXCEPT !.mVolume = StdClamp[volume, 0, 20000]]

setBassBoost(p, strength) == [p EXCEPT !.mBassBoost = StdClamp[strength, 0, 10000]]

setVirtualizer(p, strength) == [p EXCEPT !.mVirtualizer = StdClamp[strength, 0, 10000]]

setEqualizerBand(p, band, gainDb) ==
    IF band >= 0 /\ band < kNumEqualizerBands
    THEN [p EXCEPT !.mEqualizerBands[band] = StdClamp[gainDb, -120000, 120000]]
    ELSE p

setCompressor(p, threshold, ratio, attack, release) ==
    [p EXCEPT !.mCompressorThreshold = threshold,
              !.mCompressorRatio = ratio,
              !.mCompressorAttack = attack,
              !.mCompressorRelease = release]

\* threshold and ratio are computed from the argument, not from the clamped
\* value that is stored as the strength
setCompressorStrength(p, strength) ==
    [p EXCEPT !.mCompressorStrength = StdClamp[strength, 0, 10000],
              !.mCompressorThreshold = FAdd[-200000, FMul[strength, 100000]],
              !.mCompressorRatio = FAdd[10000, FMul[strength, 70000]]]

setLimiter(p, ceiling) == [p EXCEPT !.mLimiterCeiling = StdClamp[ceiling, 5000, 10000]]

setSurround3D(p, depth) == [p EXCEPT !.mSurround3D = StdClamp[depth, 0, 10000]]

\* setRoomSize storing into mSurroundLevel
setRoomSizeIntoLevel(p, size) == [p EXCEPT !.mSurroundLevel = StdClamp[size, 0, 10000]]

setRoomSize(p, size) == [p EXCEPT !.mRoomSize = StdClamp[size, 0, 10000]]

setSurroundLevel(p, level) == [p EXCEPT !.mSurroundLevel = StdClamp[level, 0, 10000]]

\* setSurroundMode with no break at the end of case 1
setSurroundModeFallThrough(p, mode) ==
    LET q == [p EXCEPT !.mSurroundMode = ClampInt(mode, 0, 4)]
    IN  CASE mode = 0 -> [q EXCEPT !.mSurround3D = 0]
          [] mode = 1 -> [q EXCEPT !.mSurround3D = 7000, !.mRoomSize = 7000,
                                   !.mSurroundLevel = 6000]
          [] mode = 2 -> [q EXCEPT !.mSurround3D = 7000, !.mRoomSize = 7000,
                                   !.mSurroundLevel = 6000]
          [] mode = 3 -> [q EXCEPT !.mSurround3D = 8000, !.mRoomSize = 4000,
                                   !.mSurroundLevel = 7000,
                                   !.mHeadphoneSurround = TRUE]
          [] mode = 4 -> [q EXCEPT !.mSurround3D = 2000, !.mRoomSize = 2000,
                                   !.mSurroundLevel = 3000]
          [] OTHER -> q

\* the switch is on the argument, not on the clamped mode that is stored:
\* a mode outside 0..4 matches no case
setSurroundMode(p, mode) ==
    LET q == [p EXCEPT !.mSurroundMode = ClampInt(mode, 0, 4)]
    IN  CASE mode = 0 -> [q EXCEPT !.mSurround3D = 0]
          [] mode = 1 -> [q EXCEPT !.mSurround3D = 4000, !.mRoomSize = 3000,
                                   !.mSurroundLevel = 5000]
          [] mode = 2 -> [q EXCEPT !.mSurround3D = 7000, !.mRoomSize = 7000,
                                   !.mSurroundLevel = 6000]
          [] mode = 3 -> [q EXCEPT !.mSurround3D = 8000, !.mRoomSize = 4000,
                                   !.mSurroundLevel = 7000,
                                   !.mHeadphoneSurround = TRUE]
          [] mode = 4 -> [q EXCEPT !.mSurround3D = 2000, !.mRoomSize = 2000,
                                   !.mSurroundLevel = 3000]
          [] OTHER -> q

setHeadphoneSurround(p, enabled) == [p EXCEPT !.mHeadphoneSurround = enabled]

setHeadphoneType(p, type) == [p EXCEPT !.mHeadphoneType = ClampInt(type, 0, 4)]

setClarity(p, level) == [p EXCEPT !.mClarity = StdClamp[level, 0, 10000]]

setTubeWarmth(p, warmth) == [p EXCEPT !.mTubeWarmth = StdClamp[warmth, 0, 10000]]

setSpectrumExtension(p, level) ==
    [p EXCEPT !.mSpectrumExtension = StdClamp[level, 0, 10000]]

setStereoBalance(p, balance) ==
    [p EXCEPT !.mStereoBalance = StdClamp[balance, -10000, 10000]]

setChannelSeparation(p, separation) ==
    [p EXCEPT !.mChannelSeparation = StdClamp[separation, 0, 10000]]

setTrebleBoost(p, level) == [p EXCEPT !.mTrebleBoost = StdClamp[level, 0, 10000]]

setVolumeLeveler(p, level) == [p EXCEPT !.mVolumeLeveler = StdClamp[level, 0, 10000]]

setTempo(p, tempo) == [p EXCEPT !.mTempo = StdClamp[tempo, 5000, 20000]]

\* mPitchRatio = 2^(semitones / 12), from the argument as passed
setPitch(p, semitones) ==
    [p EXCEPT !.mPitchSemitones = StdClamp[semitones, -120000, 120000],
              !.mPitchRatio = Pow[20000, FDiv[semitones, 120000]]]

\* strength, threshold and ratio are stored only when 1 - range > 0.01, and
\* are computed from the argument, not from the clamped range
setDynamicRange(p, range) ==
    LET q == [p EXCEPT !.mDynamicRange = StdClamp[range, 0, 10000]]
        compressionAmount == FSub[10000, range]
    IN  IF FGt[compressionAmount, 100]
        THEN [q EXCEPT !.mCompressorStrength = FMul[compressionAmount, 7000],
                       !.mCompressorThreshold = FAdd[-200000, FMul[range, 100000]],
                       !.mCompressorRatio =
                           FAdd[10000, FMul[FSub[10000, range], 70000]]]
        ELSE q

setLoudnessGain(p, gain) == [p EXCEPT !.mLoudnessGain = StdClamp[gain, 0, 10000]]

setReverb(p, preset, wetMix) ==
    [p EXCEPT !.mReverbPreset = ClampInt(preset, 0, 6),
              !.mReverbWet = StdClamp[wetMix, 0, 10000]]

\* ------------------------------------------------------------------------
\* processing state (audio_engine.h) and the effect processors
\* ------------------------------------------------------------------------

kMaxDelayFrames == 2048

kReverbBufferSize == 8192

\* mTargetRms, the volume leveler's target RMS level (0.3f)
mTargetRms == 3000

\* a % b of C++ on int, for b > 0: the quotient is truncated toward zero, so
\* the remainder has the sign of a
Rem(a, b) == IF a >= 0 THEN a % b ELSE -((-a) % b)

\* An access to a delay line: the capacity of the buffer, the delay
\* addressed (0 for a write at the cursor) and the index used.
Access(capacity, delay, index) ==
    [capacity |-> capacity, delay |-> delay, index |-> index]

\* A delay line holds its non-zero cells only: a cell that was never written,
\* or was written with 0, reads as the 0.0f the constructor filled it with.
EmptyLine == [j \in {} |-> 0]

ReadLine(line, pos) == IF pos \in DOMAIN line THEN line[pos] ELSE 0

WriteLine(line, pos, v) ==
    [j \in (IF v = 0 THEN DOMAIN line \ {pos} ELSE DOMAIN line \cup {pos}) |->
        IF j = pos THEN v ELSE line[j]]

\* the state after AudioEngine::AudioEngine(); bufferCount is the static call
\* counter of processAudio
InitialState ==
    [ mBassState          |-> <<0, 0>>,
      mClarityState       |-> <<0, 0>>,
      mTrebleState        |-> <<0, 0>>,
      mHarmonicState      |-> <<0, 0>>,
      mCompressorEnvelope |-> 0,
      mRmsLevel           |-> 0,
      mDelayBufferL       |-> EmptyLine,
      mDelayBufferR       |-> EmptyLine,
      mDelayWritePos      |-> 0,
      mCombBuffer1        |-> EmptyLine,
      mCombBuffer2        |-> EmptyLine,
      mCombBuffer3        |-> EmptyLine,
      mCombBuffer4        |-> EmptyLine,
      mAllpassBuffer1     |-> EmptyLine,
      mAllpassBuffer2     |-> EmptyLine,
      mCombPos1           |-> 0,
      mCombPos2           |-> 0,
      mCombPos3           |-> 0,
      mCombPos4           |-> 0,
      mAllpassPos1        |-> 0,
      mAllpassPos2        |-> 0,
      bufferCount         |-> 0 ]

\* A render call in progress: c.buf is the caller's buffer (buffer[i] of the
\* source is c.buf[i + 1]), c.st the processing state, c.stages the stages
\* that have run so far in this call, in the order they ran, c.entry the
\* contents of the buffer when each of them started, and c.access the
\* accesses made to the delay lines.
Enter(c, stage) ==
    [c EXCEPT !.stages = Append(@, stage), !.entry = Append(@, c.buf)]

\* Body applied to the value of v, which is computed once
With(v, Body(_)) == CHOOSE r \in {Body(x) : x \in {v}} : TRUE

RECURSIVE ForEach(_, _, _, _)
\* for (k = from; k < to; k++) c = Body(k, c)
ForEach(Body(_, _), k, to, c) ==
    With(c, LAMBDA d : IF k >= to THEN d ELSE ForEach(Body, k + 1, to, Body(k, d)))

MinInt(a, b) == IF b < a THEN b ELSE a

\* buffer[i] *= gain for every i < numSamples
ScaleBuffer(c, numSamples, gain) ==
    LET Body(k, d) == [d EXCEPT !.buf[k + 1] = FMul[@, gain]]
    IN  ForEach(Body, 0, numSamples, c)

applyVolumeLeveler(p, c, numFrames, channelCount) ==
    LET strength == p.mVolumeLeveler
        numSamples == numFrames * channelCount
        Sum(k, acc) == FAdd[acc, FMul[c.buf[k + 1], c.buf[k + 1]]]
        sumSquares == ForEach(Sum, 0, numSamples, 0)
        rms == Sqrt[FDiv[sumSquares, ToFloat(numSamples)]]
        rmsLevel == FAdd[FMul[c.st.mRmsLevel, 9900], FMul[rms, 100]]
        c1 == [Enter(c, "volumeLeveler") EXCEPT !.st.mRmsLevel = rmsLevel]
        targetGain == StdClamp[FDiv[mTargetRms, rmsLevel], 1000, 40000]
        gain == FAdd[10000, FMul[FSub[targetGain, 10000], strength]]
    IN  IF FGt[rmsLevel, 10] THEN ScaleBuffer(c1, numSamples, gain) ELSE c1

applyBassBoost(p, c, numFrames, channelCount) ==
    LET strength == p.mBassBoost
        alpha == FAdd[1500, FMul[strength, 1500]]
        boost == FAdd[10000, FMul[strength, 20000]]
        Body(k, d) ==
            LET ch == k % channelCount
                sample == d.buf[k + 1]
                state == FAdd[d.st.mBassState[ch + 1],
                              FMul[alpha, FSub[sample, d.st.mBassState[ch + 1]]]]
            IN  IF ch >= MinInt(channelCount, 2) THEN d
                ELSE [d EXCEPT !.st.mBassState[ch + 1] = state,
                               !.buf[k + 1] =
                                   FAdd[sample, FMul[state, FSub[boost, 10000]]]]
    IN  ForEach(Body, 0, numFrames * channelCount, Enter(c, "bassBoost"))

applyTrebleBoost(p, c, numFrames, channelCount) ==
    LET strength == p.mTrebleBoost
        alpha == FSub[9000, FMul[strength, 2000]]
        boost == FMul[strength, 15000]
        Body(k, d) ==
            LET ch == k % channelCount
                sample == d.buf[k + 1]
                prevState == d.st.mTrebleState[ch + 1]
                treble == FSub[FSub[sample, FMul[alpha, prevState]],
                               FMul[FSub[10000, alpha], sample]]
            IN  IF ch >= MinInt(channelCount, 2) THEN d
                ELSE [d EXCEPT !.st.mTrebleState[ch + 1] = sample,
                               !.buf[k + 1] = FAdd[sample, FMul[treble, boost]]]
    IN  ForEach(Body, 0, numFrames * channelCount, Enter(c, "trebleBoost"))

\* the bands whose magnitude exceeds 0.1 dB are summed; the sum is divided
\* by the number of bands
applyEqualizer(p, c, numFrames, channelCount) ==
    LET Counted(i) == FGt[FAbs[p.mEqualizerBands[i]], 1000]
        hasGain == \E i \in 0 .. kNumEqualizerBands - 1 : Counted(i)
        Sum(i, acc) == IF Counted(i) THEN FAdd[acc, p.mEqualizerBands[i]] ELSE acc
        totalGain == FDiv[ForEach(Sum, 0, kNumEqualizerBands, 0),
                          ToFloat(kNumEqualizerBands)]
        linearGain == Pow[100000, FDiv[totalGain, 200000]]
    IN  IF ~hasGain THEN c
        ELSE ScaleBuffer(Enter(c, "equalizer"), numFrames * channelCount, linearGain)

applyClarity(p, c, numFrames, channelCount) ==
    LET level == p.mClarity
        alpha == 8500
        boost == FMul[level, 20000]
        Body(k, d) ==
            LET ch == k % channelCount
                sample == d.buf[k + 1]
                highFreq == FSub[sample, FMul[d.st.mClarityState[ch + 1], alpha]]
            IN  IF ch >= MinInt(channelCount, 2) THEN d
                ELSE [d EXCEPT !.st.mClarityState[ch + 1] = sample,
                               !.buf[k + 1] = FAdd[sample, FMul[highFreq, boost]]]
    IN  ForEach(Body, 0, numFrames * channelCount, Enter(c, "clarity"))

applyTubeWarmth(p, c, numSamples) ==
    LET warmth == p.mTubeWarmth
        drive == FAdd[10000, FMul[warmth, 30000]]
        Body(k, d) ==
            LET driven == FMul[d.buf[k + 1], drive]
                sample == IF FGt[driven, 0]
                          THEN FDiv[Tanh[FMul[driven, 8000]], 8000]
                          ELSE FDiv[Tanh[FMul[driven, 12000]], 12000]
            IN  [d EXCEPT !.buf[k + 1] =
                    FAdd[FMul[@, FSub[10000, warmth]],
                         FDiv[FMul[sample, warmth], drive]]]
    IN  ForEach(Body, 0, numSamples, Enter(c, "tubeWarmth"))

applySpectrumExtension(p, c, numFrames, channelCount) ==
    LET level == p.mSpectrumExtension
        Body(k, d) ==
            LET ch == k % channelCount
                sample == d.buf[k + 1]
                harmonic == FMul[FMax[0, FSub[FAbs[sample], 5000]], 20000]
                filteredHarmonic ==
                    FSub[harmonic, FMul[d.st.mHarmonicState[ch + 1], 9500]]
            IN  IF ch >= MinInt(channelCount, 2) THEN d
                ELSE [d EXCEPT !.st.mHarmonicState[ch + 1] = harmonic,
                               !.buf[k + 1] =
                                   FAdd[sample,
                                        FMul[FMul[filteredHarmonic, level], 3000]]]
    IN  ForEach(Body, 0, numFrames * channelCount, Enter(c, "spectrumExtension"))

applyCompressor(p, c, numFrames, channelCount) ==
    LET threshold == p.mCompressorThreshold
        ratio == p.mCompressorRatio
        attack == p.mCompressorAttack
        release == p.mCompressorRelease
        Coefs == [thresholdLin |-> Pow[100000, FDiv[threshold, 200000]],
                  attackCoef |-> Exp[FDiv[-10000, FMul[attack, ToFloat(48000)]]],
                  releaseCoef |-> Exp[FDiv[-10000, FMul[release, ToFloat(48000)]]]]
        Envelope(k, inputLevel, old) ==
            IF FGt[inputLevel, old]
            THEN FAdd[FMul[k.attackCoef, old],
                      FMul[FSub[10000, k.attackCoef], inputLevel]]
            ELSE FAdd[FMul[k.releaseCoef, old],
                      FMul[FSub[10000, k.releaseCoef], inputLevel]]
        Gain(k, envelope) ==
            IF FGt[envelope, k.thresholdLin]
            THEN Pow[FDiv[envelope, k.thresholdLin], FSub[FDiv[10000, ratio], 10000]]
            ELSE 10000
        Frame(k, i, d) ==
            LET Peak(ch, acc) == FMax[acc, FAbs[d.buf[i * channelCount + ch + 1]]]
            IN  With(ForEach(Peak, 0, channelCount, 0), LAMBDA inputLevel :
                With(Envelope(k, inputLevel, d.st.mCompressorEnvelope), LAMBDA envelope :
                With(Gain(k, envelope), LAMBDA gain :
                    ForEach(LAMBDA ch, e :
                                [e EXCEPT !.buf[i * channelCount + ch + 1] = FMul[@, gain]],
                            0, channelCount,
                            [d EXCEPT !.st.mCompressorEnvelope = envelope]))))
    IN  With(Coefs, LAMBDA k :
            ForEach(LAMBDA i, d : Frame(k, i, d), 0, numFrames, Enter(c, "compressor")))

\* the loudness makeup gain, inline in processAudio
applyLoudnessGain(p, c, numFrames, channelCount) ==
    LET loudnessGain == p.mLoudnessGain
        gainFactor == FAdd[10000, FMul[loudnessGain, 15000]]
    IN  ScaleBuffer(Enter(c, "loudnessGain"), numFrames * channelCount, gainFactor)

\* the comb delays, comb decays and allpass delays of a reverb preset
ReverbPreset(preset) ==
    CASE preset = 1 -> [combDelays |-> <<557, 617, 709, 811>>,
                        combDecays |-> <<7000, 6800, 6600, 6400>>,
                        allpassDelays |-> <<113, 271>>]
      [] preset = 2 -> [combDelays |-> <<1117, 1277, 1487, 1687>>,
                        combDecays |-> <<7800, 7600, 7400, 7200>>,
                        allpassDelays |-> <<211, 379>>]
      [] preset = 3 -> [combDelays |-> <<1557, 1777, 2087, 2387>>,
                        combDecays |-> <<8200, 8000, 7800, 7600>>,
                        allpassDelays |-> <<307, 491>>]
      [] preset = 4 -> [combDelays |-> <<2001, 2287, 2647, 3001>>,
                        combDecays |-> <<8600, 8400, 8200, 8000>>,
                        allpassDelays |-> <<403, 607>>]
      [] preset = 5 -> [combDelays |-> <<2777, 3167, 3607, 4091>>,
                        combDecays |-> <<9000, 8800, 8600, 8400>>,
                        allpassDelays |-> <<509, 797>>]
      [] OTHER      -> [combDelays |-> <<1367, 1559, 1783, 2017>>,
                        combDecays |-> <<9200, 9100, 9000, 8900>>,
                        allpassDelays |-> <<157, 331>>]

\* (pos - delay + kReverbBufferSize) % kReverbBufferSize
ReverbReadPos(pos, delay) == Rem(pos - delay + kReverbBufferSize, kReverbBufferSize)

\* applyReverb after its first test: four comb filters in parallel, two
\* allpass filters in series, and the wet/dry mix
reverbNetwork(p, c, numFrames, channelCount) ==
    LET preset == p.mReverbPreset
        wetMix == p.mReverbWet
        r == ReverbPreset(preset)
        dryMix == FSub[10000, FMul[wetMix, 5000]]
        allpassGain == 5000
        Body(i, d) ==
            LET Sum(ch, acc) == FAdd[acc, d.buf[i * channelCount + ch + 1]]
                input == FDiv[ForEach(Sum, 0, channelCount, 0), ToFloat(channelCount)]
                s == d.st
                comb1 == ReadLine(s.mCombBuffer1, ReverbReadPos(s.mCombPos1, r.combDelays[1]))
                comb2 == ReadLine(s.mCombBuffer2, ReverbReadPos(s.mCombPos2, r.combDelays[2]))
                comb3 == ReadLine(s.mCombBuffer3, ReverbReadPos(s.mCombPos3, r.combDelays[3]))
                comb4 == ReadLine(s.mCombBuffer4, ReverbReadPos(s.mCombPos4, r.combDelays[4]))
                combOut == FMul[FAdd[FAdd[FAdd[FAdd[0, comb1], comb2], comb3], comb4], 2500]
                ap1Delayed == ReadLine(s.mAllpassBuffer1,
                                       ReverbReadPos(s.mAllpassPos1, r.allpassDelays[1]))
                ap1Out == FSub[ap1Delayed, FMul[allpassGain, combOut]]
                ap2Delayed == ReadLine(s.mAllpassBuffer2,
                                       ReverbReadPos(s.mAllpassPos2, r.allpassDelays[2]))
                ap2Out == FSub[ap2Delayed, FMul[allpassGain, ap1Out]]
                reverbOut == ap2Out
                s1 == [s EXCEPT
                        !.mCombBuffer1 = WriteLine(@, s.mCombPos1,
                                             FAdd[input, FMul[comb1, r.combDecays[1]]]),
                        !.mCombPos1 = Rem(@ + 1, kReverbBufferSize),
                        !.mCombBuffer2 = WriteLine(@, s.mCombPos2,
                                             FAdd[input, FMul[comb2, r.combDecays[2]]]),
                        !.mCombPos2 = Rem(@ + 1, kReverbBufferSize),
                        !.mCombBuffer3 = WriteLine(@, s.mCombPos3,
                                             FAdd[input, FMul[comb3, r.combDecays[3]]]),
                        !.mCombPos3 = Rem(@ + 1, kReverbBufferSize),
                        !.mCombBuffer4 = WriteLine(@, s.mCombPos4,
                                             FAdd[input, FMul[comb4, r.combDecays[4]]]),
                        !.mCombPos4 = Rem(@ + 1, kReverbBufferSize),
                        !.mAllpassBuffer1 = WriteLine(@, s.mAllpassPos1,
                                                FAdd[combOut, FMul[allpassGain, ap1Out]]),
                        !.mAllpassPos1 = Rem(@ + 1, kReverbBufferSize),
                        !.mAllpassBuffer2 = WriteLine(@, s.mAllpassPos2,
                                                FAdd[ap1Out, FMul[allpassGain, ap2Out]]),
                        !.mAllpassPos2 = Rem(@ + 1, kReverbBufferSize)]
                touched ==
                    {Access(kReverbBufferSize, r.combDelays[1],
                            ReverbReadPos(s.mCombPos1, r.combDelays[1])),
                     Access(kReverbBufferSize, r.combDelays[2],
                            ReverbReadPos(s.mCombPos2, r.combDelays[2])),
                     Access(kReverbBufferSize, r.combDelays[3],
                            ReverbReadPos(s.mCombPos3, r.combDelays[3])),
                     Access(kReverbBufferSize, r.combDelays[4],
                            ReverbReadPos(s.mCombPos4, r.combDelays[4])),
                     Access(kReverbBufferSize, r.allpassDelays[1],
                            ReverbReadPos(s.mAllpassPos1, r.allpassDelays[1])),
                     Access(kReverbBufferSize, r.allpassDelays[2],
                            ReverbReadPos(s.mAllpassPos2, r.allpassDelays[2]))}
                    \cup {Access(kReverbBufferSize, 0, pos) :
                            pos \in {s.mCombPos1, s.mCombPos2, s.mCombPos3, s.mCombPos4,
                                     s.mAllpassPos1, s.mAllpassPos2}}
                Mix(ch, e) ==
                    [e EXCEPT !.buf[i * channelCount + ch + 1] =
                        FAdd[FMul[@, dryMix], FMul[reverbOut, wetMix]]]
            IN  ForEach(Mix, 0, channelCount,
                        [d EXCEPT !.st = s1, !.access = @ \cup touched])
    IN  ForEach(Body, 0, numFrames, Enter(c, "reverb"))

\* applyReverb that runs the network whatever the wet mix
applyReverbAnyWet(p, c, numFrames, channelCount) ==
    IF p.mReverbPreset = 0 THEN c ELSE reverbNetwork(p, c, numFrames, channelCount)

applyReverb(p, c, numFrames, channelCount) ==
    IF p.mReverbPreset = 0 \/ FLt[p.mReverbWet, 100] THEN c
    ELSE reverbNetwork(p, c, numFrames, channelCount)

applyVirtualizer(p, c, numFrames, channelCount) ==
    LET strength == p.mVirtualizer
        crossMix == FMul[strength, 5000]
        directGain == FAdd[10000, FMul[strength, 2000]]
        Body(i, d) ==
            LET left == d.buf[2 * i + 1]
                right == d.buf[2 * i + 2]
            IN  [d EXCEPT !.buf[2 * i + 1] =
                              FSub[FMul[left, directGain], FMul[right, crossMix]],
                          !.buf[2 * i + 2] =
                              FSub[FMul[right, directGain], FMul[left, crossMix]]]
    IN  IF channelCount # 2 THEN c
        ELSE ForEach(Body, 0, numFrames, Enter(c, "virtualizer"))

\* crossfeedAmount, delayMultiplier, bassEnhance and highFreqBoost of the
\* headphone type, when headphone surround is enabled
HeadphoneProfile(headphoneSurround, headphoneType) ==
    LET base == [crossfeedAmount |-> 3000, delayMultiplier |-> 10000,
                 bassEnhance |-> 0, highFreqBoost |-> 0]
    IN  IF ~headphoneSurround THEN base
        ELSE CASE headphoneType = 0 ->
                    [base EXCEPT !.crossfeedAmount = 2500, !.delayMultiplier = 10000]
               [] headphoneType = 1 ->
                    [base EXCEPT !.crossfeedAmount = 2000, !.delayMultiplier = 7000,
                                 !.bassEnhance = 1500]
               [] headphoneType = 2 ->
                    [base EXCEPT !.crossfeedAmount = 3500, !.delayMultiplier = 12000,
                                 !.highFreqBoost = 1000]
               [] headphoneType = 3 ->
                    [base EXCEPT !.crossfeedAmount = 1500, !.delayMultiplier = 15000]
               [] headphoneType = 4 ->
                    [base EXCEPT !.crossfeedAmount = 2800, !.delayMultiplier = 10000,
                                 !.highFreqBoost = 500]
               [] OTHER -> base

\* (mDelayWritePos - delay) % kMaxDelayFrames, without the offset that keeps
\* the left operand positive
DelayReadPosNoOffset(pos, delay) == Rem(pos - delay, kMaxDelayFrames)

\* (mDelayWritePos - delay + kMaxDelayFrames) % kMaxDelayFrames
DelayReadPos(pos, delay) == Rem(pos - delay + kMaxDelayFrames, kMaxDelayFrames)

applySurround3D(p, c, numFrames) ==
    LET depth == p.mSurround3D
        roomSize == p.mRoomSize
        surroundLevel == p.mSurroundLevel
        headphoneSurround == p.mHeadphoneSurround
        h == HeadphoneProfile(headphoneSurround, p.mHeadphoneType)
        effectStrength == FMul[depth, FAdd[5000, FMul[surroundLevel, 5000]]]
        delayFrames ==
            MinInt(ToInt[FMul[FMul[FAdd[5000, FMul[roomSize, 295000]], ToFloat(48)],
                              h.delayMultiplier]],
                   kMaxDelayFrames - 1)
        itdDelay == MinInt(ToInt[FMul[150000, h.delayMultiplier]], kMaxDelayFrames - 1)
        crossGain == FMul[effectStrength, h.crossfeedAmount]
        itdGain == FMul[effectStrength, 1500]
        Body(i, d) ==
            LET left == d.buf[2 * i + 1]
                right == d.buf[2 * i + 2]
                s == d.st
                readPos == DelayReadPos(s.mDelayWritePos, delayFrames)
                delayedL == ReadLine(s.mDelayBufferL, readPos)
                delayedR == ReadLine(s.mDelayBufferR, readPos)
                itdReadPos == DelayReadPos(s.mDelayWritePos, itdDelay)
                itdDelayedL == ReadLine(s.mDelayBufferL, itdReadPos)
                itdDelayedR == ReadLine(s.mDelayBufferR, itdReadPos)
                s1 == [s EXCEPT
                        !.mDelayBufferL = WriteLine(@, s.mDelayWritePos, left),
                        !.mDelayBufferR = WriteLine(@, s.mDelayWritePos, right),
                        !.mDelayWritePos = Rem(@ + 1, kMaxDelayFrames)]
                touched == {Access(kMaxDelayFrames, delayFrames, readPos),
                            Access(kMaxDelayFrames, itdDelay, itdReadPos),
                            Access(kMaxDelayFrames, 0, s.mDelayWritePos)}
                bass == FMul[FMul[FMul[FAdd[left, right], 5000], h.bassEnhance],
                             effectStrength]
                diff == FMul[FMul[FSub[left, right], h.highFreqBoost], effectStrength]
                \* newLeft and newRight after each statement that adds to them
                Crossfeed == <<FAdd[left, FMul[delayedR, crossGain]],
                               FAdd[right, FMul[delayedL, crossGain]]>>
                Itd(n) == IF headphoneSurround
                          THEN <<FAdd[n[1], FMul[itdDelayedR, itdGain]],
                                 FAdd[n[2], FMul[itdDelayedL, itdGain]]>>
                          ELSE n
                Bass(n) == IF headphoneSurround /\ FGt[h.bassEnhance, 0]
                           THEN <<FAdd[n[1], bass], FAdd[n[2], bass]>>
                           ELSE n
                High(n) == IF headphoneSurround /\ FGt[h.highFreqBoost, 0]
                           THEN <<FAdd[n[1], diff], FSub[n[2], diff]>>
                           ELSE n
            IN  With(Crossfeed, LAMBDA n1 : With(Itd(n1), LAMBDA n2 :
                With(Bass(n2), LAMBDA n3 : With(High(n3), LAMBDA new :
                    [d EXCEPT !.st = s1,
                              !.access = @ \cup touched,
                              !.buf[2 * i + 1] = new[1],
                              !.buf[2 * i + 2] = new[2]]))))
    IN  ForEach(Body, 0, numFrames, Enter(c, "surround3D"))

applyChannelSeparation(p, c, numFrames) ==
    LET separation == p.mChannelSeparation
        crossMix == FMul[FSub[10000, separation], 5000]
        directGain == FAdd[5000, FMul[separation, 5000]]
        Body(i, d) ==
            LET left == d.buf[2 * i + 1]
                right == d.buf[2 * i + 2]
            IN  [d EXCEPT !.buf[2 * i + 1] =
                              FAdd[FMul[left, directGain], FMul[right, crossMix]],
                          !.buf[2 * i + 2] =
                              FAdd[FMul[right, directGain], FMul[left, crossMix]]]
    IN  ForEach(Body, 0, numFrames, Enter(c, "channelSeparation"))

\* the cos/sin gains computed first are overwritten on both branches
applyStereoBalance(p, c, numFrames) ==
    LET balance == p.mStereoBalance
        leftGain == IF FLt[balance, 0] THEN 10000 ELSE FSub[10000, balance]
        rightGain == IF FLt[balance, 0] THEN FAdd[10000, balance] ELSE 10000
        Body(i, d) ==
            [d EXCEPT !.buf[2 * i + 1] = FMul[@, leftGain],
                      !.buf[2 * i + 2] = FMul[@, rightGain]]
    IN  ForEach(Body, 0, numFrames, Enter(c, "stereoBalance"))

\* applyLimiter cutting at the ceiling instead of the tanh curve
applyLimiterHardKnee(p, c, numSamples) ==
    LET ceiling == p.mLimiterCeiling
        Body(k, d) == [d EXCEPT !.buf[k + 1] = StdClamp[@, FNeg[ceiling], ceiling]]
    IN  ForEach(Body, 0, numSamples, Enter(c, "limiter"))

applyLimiter(p, c, numSamples) ==
    LET ceiling == p.mLimiterCeiling
        Body(k, d) ==
            LET sample == d.buf[k + 1]
            IN  IF FGt[FAbs[sample], ceiling]
                THEN [d EXCEPT !.buf[k + 1] = FMul[ceiling, Tanh[FDiv[sample, ceiling]]]]
                ELSE d
    IN  ForEach(Body, 0, numSamples, Enter(c, "limiter"))

\* applyVolume that attenuates but never amplifies
applyVolumeAttenuateOnly(p, c, numSamples) ==
    ScaleBuffer(Enter(c, "volume"), numSamples, FMin[p.mVolume, 10000])

applyVolume(p, c, numSamples) ==
    ScaleBuffer(Enter(c, "volume"), numSamples, p.mVolume)

\* the final hard clip, inline in processAudio
applyHardClip(c, numSamples) ==
    LET Body(k, d) == [d EXCEPT !.buf[k + 1] = StdClamp[@, -10000, 10000]]
    IN  ForEach(Body, 0, numSamples, Enter(c, "hardClip"))

\* the chain with the final hard clip before the master volume
ChainOrderClipBeforeVolume ==
    << "volumeLeveler", "bassBoost", "trebleBoost", "equalizer", "clarity",
       "tubeWarmth", "spectrumExtension", "compressor", "loudnessGain", "reverb",
       "virtualizer", "surround3D", "channelSeparation", "stereoBalance",
       "limiter", "hardClip", "volume" >>

\* a test that lets the stereo stages run on every layout of two channels or
\* more
StereoOrWider(channelCount) == channelCount >= 2

\* if (channelCount == 2) around the four stereo stages
StereoLayout(channelCount) == channelCount = 2

\* the statements of the effects chain of processAudio, in source order
ChainOrder ==
    << "volumeLeveler", "bassBoost", "trebleBoost", "equalizer", "clarity",
       "tubeWarmth", "spectrumExtension", "compressor", "loudnessGain", "reverb",
       "virtualizer", "surround3D", "channelSeparation", "stereoBalance",
       "limiter", "volume", "hardClip" >>

\* The body of processAudio after its first line: the DSP processing chain
\* and the latency log.  The result is the buffer, the processing state, the
\* stages that ran, and whether the call wrote the latency line to the log
\* (every 500th call that gets here).
processingChain(p, s, buf, numFrames, channelCount) ==
    LET numSamples == numFrames * channelCount
        Statement(k, c) ==
            LET name == ChainOrder[k + 1]
            IN  CASE name = "volumeLeveler" ->
                       IF FGt[p.mVolumeLeveler, 100]
                       THEN applyVolumeLeveler(p, c, numFrames, channelCount) ELSE c
                  [] name = "bassBoost" ->
                       IF FGt[p.mBassBoost, 100]
                       THEN applyBassBoost(p, c, numFrames, channelCount) ELSE c
                  [] name = "trebleBoost" ->
                       IF FGt[p.mTrebleBoost, 100]
                       THEN applyTrebleBoost(p, c, numFrames, channelCount) ELSE c
                  [] name = "equalizer" ->
                       applyEqualizer(p, c, numFrames, channelCount)
                  [] name = "clarity" ->
                       IF FGt[p.mClarity, 100]
                       THEN applyClarity(p, c, numFrames, channelCount) ELSE c
                  [] name = "tubeWarmth" ->
                       IF FGt[p.mTubeWarmth, 100]
                       THEN applyTubeWarmth(p, c, numSamples) ELSE c
                  [] name = "spectrumExtension" ->
                       IF FGt[p.mSpectrumExtension, 100]
                       THEN applySpectrumExtension(p, c, numFrames, channelCount) ELSE c
                  [] name = "compressor" ->
                       IF FGt[p.mCompressorStrength, 100]
                       THEN applyCompressor(p, c, numFrames, channelCount) ELSE c
                  [] name = "loudnessGain" ->
                       IF FGt[p.mLoudnessGain, 100]
                       THEN applyLoudnessGain(p, c, numFrames, channelCount) ELSE c
                  [] name = "reverb" ->
                       IF p.mReverbPreset > 0
                       THEN applyReverb(p, c, numFrames, channelCount) ELSE c
                  [] name = "virtualizer" ->
                       IF StereoLayout(channelCount) /\ FGt[p.mVirtualizer, 100]
                       THEN applyVirtualizer(p, c, numFrames, channelCount) ELSE c
                  [] name = "surround3D" ->
                       IF StereoLayout(channelCount) /\ FGt[p.mSurround3D, 100]
                       THEN applySurround3D(p, c, numFrames) ELSE c
                  [] name = "channelSeparation" ->
                       IF StereoLayout(channelCount)
                          /\ FGt[FAbs[FSub[p.mChannelSeparation, 5000]], 100]
                       THEN applyChannelSeparation(p, c, numFrames) ELSE c
                  [] name = "stereoBalance" ->
                       IF StereoLayout(channelCount) /\ FGt[FAbs[p.mStereoBalance], 100]
                       THEN applyStereoBalance(p, c, numFrames) ELSE c
                  [] name = "limiter" -> applyLimiter(p, c, numSamples)
                  [] name = "volume" ->
                       IF FGt[FAbs[FSub[p.mVolume, 10000]], 10]
                       THEN applyVolume(p, c, numSamples) ELSE c
                  [] name = "hardClip" -> applyHardClip(c, numSamples)
        Return(c) ==
            [buf |-> c.buf,
             st |-> [c.st EXCEPT !.bufferCount = @ + 1],
             stages |-> c.stages,
             entry |-> c.entry,
             access |-> c.access,
             logged |-> (s.bufferCount + 1) % 500 = 0]
    IN  With(ForEach(Statement, 0, Len(ChainOrder),
                     [buf |-> buf, st |-> s, stages |-> <<>>, entry |-> <<>>,
                      access |-> {}]),
             Return)

\* processAudio with the first line testing numFrames < 0
processAudioZeroFrames(p, s, null, buf, numFrames, channelCount) ==
    IF null \/ numFrames < 0
    THEN [buf |-> buf, st |-> s, stages |-> <<>>, entry |-> <<>>, access |-> {},
          logged |-> FALSE]
    ELSE processingChain(p, s, buf, numFrames, channelCount)

\* AudioEngine::processAudio.  null: the buffer pointer is nullptr.
processAudio(p, s, null, buf, numFrames, channelCount) ==
    IF null \/ numFrames <= 0
    THEN [buf |-> buf, st |-> s, stages |-> <<>>, entry |-> <<>>, access |-> {},
          logged |-> FALSE]
    ELSE processingChain(p, s, buf, numFrames, channelCount)

\* the getters of audio_engine.h
getVolume(p) == p.mVolume

getBassBoost(p) == p.mBassBoost

getVirtualizer(p) == p.mVirtualizer

getCompressor(p) == p.mCompressorStrength

getLimiter(p) == p.mLimiterCeiling

getSurround3D(p) == p.mSurround3D

getClarity(p) == p.mClarity

getTubeWarmth(p) == p.mTubeWarmth

getReverbPreset(p) == p.mReverbPreset

getReverbWet(p) == p.mReverbWet

getTempo(p) == p.mTempo

getPitch(p) == p.mPitchSemitones

GetterNames ==
    { "getVolume", "getBassBoost", "getVirtualizer", "getCompressor", "getLimiter",
      "getSurround3D", "getClarity", "getTubeWarmth", "getReverbPreset",
      "getReverbWet", "getTempo", "getPitch" }

\* ------------------------------------------------------------------------
\* the calls made on the engine
\* ------------------------------------------------------------------------

\* the longest buffer passed to processAudio, in samples
MaxSamples == 2

\* the sample values of the input buffers: -1.5, 0, 0.4, 0.97
Samples == {-15000, 0, 4000, 9700}

\* the sample values of the buffers of more than two channels: -1.5, 0.4
MultiChannelSamples == {-15000, 4000}

ChannelCounts == {1, 2, 3}

\* A call on the engine: op names the method, n is its int argument, b its
\* bool argument, and x, y, z, w are its float arguments in order.
Call(op, n, b, x, y, z, w) ==
    [op |-> op, n |-> n, b |-> b, x |-> x, y |-> y, z |-> z, w |-> w]

FloatCall(op, x) == Call(op, 0, FALSE, x, 0, 0, 0)

IntCall(op, n) == Call(op, n, FALSE, 0, 0, 0, 0)

Render == IntCall("processAudio", 0)

\* the setters of one float knob with the range [0, 1]
UnitSetters ==
    { "setBassBoost", "setVirtualizer", "setSurround3D", "setRoomSize",
      "setSurroundLevel", "setClarity", "setTubeWarmth", "setSpectrumExtension",
      "setChannelSeparation", "setTrebleBoost", "setVolumeLeveler",
      "setLoudnessGain" }

\* float arguments: -5, -1, 0.7, 5 and, for the knobs in dB or semitones,
\* -99, 3, 99
UnitArgs == {-10000, 7000, 50000}

WideArgs == {-990000, 30000, 990000}

SetterCalls ==
    {FloatCall(op, x) : op \in UnitSetters \cup {"setVolume", "setLimiter", "setTempo"},
                        x \in UnitArgs}
    \cup {FloatCall("setStereoBalance", x) : x \in {-50000, 7000, 50000}}
    \cup {FloatCall("setPitch", x) : x \in WideArgs}
    \cup {FloatCall("setCompressorStrength", x) : x \in {-10000, 5000, 10000, 20000}}
    \cup {FloatCall("setDynamicRange", x) : x \in {-10000, 0, 5000, 10000, 20000}}
    \cup {Call("setEqualizerBand", n, FALSE, x, 0, 0, 0) :
            n \in {-1, 0, 9, 10}, x \in WideArgs}
    \cup {Call("setReverb", n, FALSE, x, 0, 0, 0) : n \in {-1, 0, 3, 9}, x \in UnitArgs}
    \cup {IntCall("setSurroundMode", n) : n \in {-1, 0, 1, 2, 3, 4, 9}}
    \cup {IntCall("setHeadphoneType", n) : n \in {-1, 1, 2, 9}}
    \cup {Call("setHeadphoneSurround", 0, b, 0, 0, 0, 0) : b \in BOOLEAN}
    \cup {Call("setCompressor", 0, FALSE, -100000, 40000, 200, 2000),
          Call("setCompressor", 0, FALSE, -100000, 0, 0, 1000)}

\* the calls on the knobs that setSurroundMode, setCompressorStrength and
\* setDynamicRange also write
CoupledCalls ==
    {c \in SetterCalls :
        c.op \in {"setSurroundMode", "setSurround3D", "setRoomSize", "setSurroundLevel",
                  "setHeadphoneSurround", "setCompressor", "setCompressorStrength",
                  "setDynamicRange"}}

\* the calls that write several knobs at once
MacroCalls ==
    {c \in SetterCalls :
        c.op \in {"setSurroundMode", "setCompressorStrength", "setDynamicRange"}}

\* every effect switched on, then a buffer
AllEffects ==
    << FloatCall("setVolumeLeveler", 7000), FloatCall("setBassBoost", 7000),
       FloatCall("setTrebleBoost", 7000),
       Call("setEqualizerBand", 0, FALSE, 30000, 0, 0, 0),
       FloatCall("setClarity", 7000), FloatCall("setTubeWarmth", 7000),
       FloatCall("setSpectrumExtension", 7000),
       FloatCall("setCompressorStrength", 10000), FloatCall("setLoudnessGain", 7000),
       Call("setReverb", 3, FALSE, 5000, 0, 0, 0), FloatCall("setVirtualizer", 7000),
       IntCall("setSurroundMode", 3), FloatCall("setChannelSeparation", 7000),
       FloatCall("setStereoBalance", 7000), FloatCall("setVolume", 50000),
       Render >>

\* The sequences of calls made on one engine: one setter call and a buffer;
\* two calls on coupled knobs, one of them on several knobs at once; a
\* buffer, a setter call and a second buffer; a compressor configured by
\* hand and two buffers; two buffers; every effect at once; a buffer with
\* reverb, the reverb switched off, and a second buffer; two equalizer bands
\* and a buffer; the largest room with each headphone type and a buffer; each
\* reverb preset and a buffer; a buffer with bass boost and a getter; two
\* buffers with the surround on.
Workloads ==
    {<<c, Render>> : c \in SetterCalls}
    \cup {<<c, d>> : c \in MacroCalls, d \in CoupledCalls}
    \cup {<<c, d>> : c \in CoupledCalls, d \in MacroCalls}
    \cup {<<FloatCall("setBassBoost", 7000), Render, c, Render>> :
            c \in {FloatCall("setBassBoost", -10000), IntCall("setSurroundMode", 2)}}
    \cup {<<FloatCall("setCompressorStrength", 10000),
            Call("setCompressor", 0, FALSE, -100000, 0, 0, 1000), Render, Render>>,
          <<IntCall("setSurroundMode", 2), FloatCall("setRoomSize", -10000), Render>>,
          <<Render, Render>>,
          <<IntCall("setSurroundMode", 2), Render, Render>>,
          AllEffects}
    \cup {<<Call("setReverb", 3, FALSE, 5000, 0, 0, 0), Render, c, Render>> :
            c \in {Call("setReverb", 0, FALSE, 5000, 0, 0, 0),
                   Call("setReverb", 3, FALSE, 50, 0, 0, 0)}}
    \cup {<<Call("setEqualizerBand", 0, FALSE, 60000, 0, 0, 0),
            Call("setEqualizerBand", 1, FALSE, x, 0, 0, 0), Render>> :
            x \in {-60000, 800}}
    \cup {<<FloatCall("setSurround3D", 7000), FloatCall("setRoomSize", 50000),
            Call("setHeadphoneSurround", 0, TRUE, 0, 0, 0, 0),
            IntCall("setHeadphoneType", type), Render>> : type \in 1 .. 4}
    \cup {<<Call("setReverb", preset, FALSE, 5000, 0, 0, 0), Render>> :
            preset \in {1, 2, 4, 5}}
    \cup {<<FloatCall("setBassBoost", 7000), Render, IntCall(get, 0)>> :
            get \in GetterNames}

\* the arguments of a processAudio call: whether the buffer pointer is null,
\* numFrames and channelCount
Geometries ==
    {[null |-> FALSE, numFrames |-> f, channelCount |-> ch] :
        f \in {g \in -1 .. MaxSamples : \E ch \in ChannelCounts : g * ch <= MaxSamples},
        ch \in ChannelCounts}
    \cup {[null |-> TRUE, numFrames |-> 1, channelCount |-> 1]}

\* the buffers the caller may pass with a geometry: numFrames x channelCount
\* samples, and one sample when numFrames is not positive; one frame when
\* there are more than two channels
InputBuffers(g) ==
    IF g.numFrames <= 0 THEN [1 .. 1 -> Samples]
    ELSE IF g.channelCount > 2
    THEN (IF g.numFrames = 1 THEN [1 .. g.channelCount -> MultiChannelSamples] ELSE {})
    ELSE IF g.numFrames * g.channelCount > MaxSamples THEN {}
    ELSE [1 .. g.numFrames * g.channelCount -> Samples]

VARIABLES
    params,   \* the effect parameters
    st,       \* the processing state
    script,   \* the calls still to be made
    calls,    \* the calls made so far
    pre,      \* the parameters and the processing state before the last call
    audio,    \* the last processAudio call: its arguments and what it did
    race,     \* a setter call and a render call in progress at the same time
    control,  \* the setter calls of several control threads in progress
    jni       \* the engine pointer of the JNI bridge and the native call in progress

vars == <<params, st, script, calls, pre, audio, race, control, jni>>

NoCall == IntCall("none", 0)

\* the last call made
call == IF calls = <<>> THEN NoCall ELSE calls[Len(calls)]

\* A knob: a parameter member of the engine, or one element of
\* mEqualizerBands
Knob(f, i) == [f |-> f, i |-> i]

Knobs ==
    {Knob(f, 0) : f \in DOMAIN DefaultParams \ {"mEqualizerBands"}}
    \cup {Knob("mEqualizerBands", i) : i \in 0 .. kNumEqualizerBands - 1}

\* No call in progress: no store of a setter call is pending, no value has
\* been stored and the render call has loaded nothing.
NoRace ==
    [pending |-> <<>>, written |-> [k \in Knobs |-> {}], reads |-> <<>>,
     channelCount |-> 0]

ControlThreads == {1, 2}

\* no control thread has a call to make or a store pending
NoControl == [t \in ControlThreads |-> [todo |-> <<>>, pending |-> <<>>]]

\* The JNI bridge before nativeCreate: sEngine is null (0), no engine has
\* been created or released, no native call is in progress and none has run.
NoJni ==
    [sEngine |-> 0, created |-> 0, released |-> {}, inCall |-> NoCall, ptr |-> 0,
     ran |-> <<>>]

NoAudio ==
    [null |-> TRUE, numFrames |-> 0, channelCount |-> 0, input |-> <<>>,
     output |-> <<>>, stages |-> <<>>, entry |-> <<>>, access |-> {},
     logged |-> FALSE]

\* The states an engine can be constructed in.  The call counter of
\* processAudio is a static local: it belongs to the process, not to the
\* engine, and an engine created after another one was destroyed starts with
\* the count its predecessors left (498 here, before two buffers).
EngineStates(workload) ==
    {InitialState}
    \cup (IF workload = <<Render, Render>>
          THEN {[InitialState EXCEPT !.bufferCount = 498]} ELSE {})

Init ==
    /\ params = DefaultParams
    /\ script \in Workloads
    /\ st \in EngineStates(script)
    /\ calls = <<>>
    /\ pre = [params |-> DefaultParams, st |-> st]
    /\ audio = NoAudio
    /\ race = NoRace
    /\ control = NoControl
    /\ jni = NoJni

\* a setter that also puts the processing state back to its state at
\* construction
SetterResetting(op) ==
    /\ script # <<>>
    /\ Head(script).op = op
    /\ script' = Tail(script)
    /\ calls' = Append(calls, Head(script))
    /\ pre' = [params |-> params, st |-> st]
    /\ st' = InitialState
    /\ UNCHANGED <<audio, race, control, jni>>

\* the next call is the setter op; it changes the parameters only
Setter(op) ==
    /\ script # <<>>
    /\ Head(script).op = op
    /\ script' = Tail(script)
    /\ calls' = Append(calls, Head(script))
    /\ pre' = [params |-> params, st |-> st]
    /\ UNCHANGED <<st, audio, race, control, jni>>

SetVolume == Setter("setVolume") /\ params' = setVolume(params, Head(script).x)

SetBassBoost == Setter("setBassBoost") /\ params' = setBassBoost(params, Head(script).x)

SetVirtualizer ==
    Setter("setVirtualizer") /\ params' = setVirtualizer(params, Head(script).x)

SetEqualizerBand ==
    /\ Setter("setEqualizerBand")
    /\ params' = setEqualizerBand(params, Head(script).n, Head(script).x)

SetCompressor ==
    /\ Setter("setCompressor")
    /\ params' = setCompressor(params, Head(script).x, Head(script).y,
                               Head(script).z, Head(script).w)

SetCompressorStrength ==
    /\ Setter("setCompressorStrength")
    /\ params' = setCompressorStrength(params, Head(script).x)

SetLimiter == Setter("setLimiter") /\ params' = setLimiter(params, Head(script).x)

SetSurround3D == Setter("setSurround3D") /\ params' = setSurround3D(params, Head(script).x)

SetRoomSize == Setter("setRoomSize") /\ params' = setRoomSize(params, Head(script).x)

SetSurroundLevel ==
    Setter("setSurroundLevel") /\ params' = setSurroundLevel(params, Head(script).x)

SetSurroundMode ==
    Setter("setSurroundMode") /\ params' = setSurroundMode(params, Head(script).n)

SetHeadphoneSurround ==
    /\ Setter("setHeadphoneSurround")
    /\ params' = setHeadphoneSurround(params, Head(script).b)

SetHeadphoneType ==
    Setter("setHeadphoneType") /\ params' = setHeadphoneType(params, Head(script).n)

SetClarity == Setter("setClarity") /\ params' = setClarity(params, Head(script).x)

SetTubeWarmth == Setter("setTubeWarmth") /\ params' = setTubeWarmth(params, Head(script).x)

SetSpectrumExtension ==
    /\ Setter("setSpectrumExtension")
    /\ params' = setSpectrumExtension(params, Head(script).x)

SetStereoBalance ==
    Setter("setStereoBalance") /\ params' = setStereoBalance(params, Head(script).x)

SetChannelSeparation ==
    /\ Setter("setChannelSeparation")
    /\ params' = setChannelSeparation(params, Head(script).x)

SetTrebleBoost ==
    Setter("setTrebleBoost") /\ params' = setTrebleBoost(params, Head(script).x)

SetVolumeLeveler ==
    Setter("setVolumeLeveler") /\ params' = setVolumeLeveler(params, Head(script).x)

SetTempo == Setter("setTempo") /\ params' = setTempo(params, Head(script).x)

SetPitch == Setter("setPitch") /\ params' = setPitch(params, Head(script).x)

SetDynamicRange ==
    Setter("setDynamicRange") /\ params' = setDynamicRange(params, Head(script).x)

SetLoudnessGain ==
    Setter("setLoudnessGain") /\ params' = setLoudnessGain(params, Head(script).x)

SetReverb ==
    Setter("setReverb") /\ params' = setReverb(params, Head(script).n, Head(script).x)

\* the next call is processAudio, on any buffer of any geometry
\* the next call is a getter: a const member function that loads one knob
\* and returns it
Getter ==
    /\ script # <<>>
    /\ Head(script).op \in GetterNames
    /\ script' = Tail(script)
    /\ calls' = Append(calls, Head(script))
    /\ pre' = [params |-> params, st |-> st]
    /\ UNCHANGED <<params, st, audio, race, control, jni>>

ProcessAudio ==
    /\ script # <<>>
    /\ Head(script).op = "processAudio"
    /\ \E g \in Geometries : \E buf \in InputBuffers(g) :
          \E c \in {processAudio(params, st, g.null, buf, g.numFrames, g.channelCount)} :
              /\ st' = c.st
              /\ audio' = [null |-> g.null, numFrames |-> g.numFrames,
                           channelCount |-> g.channelCount, input |-> buf,
                           output |-> c.buf, stages |-> c.stages, entry |-> c.entry,
                           access |-> c.access, logged |-> c.logged]
    /\ script' = Tail(script)
    /\ calls' = Append(calls, Head(script))
    /\ pre' = [params |-> params, st |-> st]
    /\ UNCHANGED <<params, race, control, jni>>

Next ==
    \/ SetVolume \/ SetBassBoost \/ SetVirtualizer \/ SetEqualizerBand
    \/ SetCompressor \/ SetCompressorStrength \/ SetLimiter \/ SetSurround3D
    \/ SetRoomSize \/ SetSurroundLevel \/ SetSurroundMode \/ SetHeadphoneSurround
    \/ SetHeadphoneType \/ SetClarity \/ SetTubeWarmth \/ SetSpectrumExtension
    \/ SetStereoBalance \/ SetChannelSeparation \/ SetTrebleBoost
    \/ SetVolumeLeveler \/ SetTempo \/ SetPitch \/ SetDynamicRange
    \/ SetLoudnessGain \/ SetReverb \/ Getter \/ ProcessAudio

Spec == Init /\ [][Next]_vars

\* ------------------------------------------------------------------------
\* a setter call on the control thread while the render thread is inside
\* processAudio: the stores of the one and the loads of the other, one at a
\* time
\* ------------------------------------------------------------------------

\* a load that takes the depth of the surround from the room size
loadOtherKnob(p, k) ==
    IF k.f = "mSurround3D" THEN p.mRoomSize
    ELSE IF k.f = "mEqualizerBands" THEN p.mEqualizerBands[k.i]
    ELSE p[k.f]

\* std::atomic<T>::load and std::atomic<T>::store on a knob
load(p, k) == IF k.f = "mEqualizerBands" THEN p.mEqualizerBands[k.i] ELSE p[k.f]

store(p, k, v) ==
    IF k.f = "mEqualizerBands" THEN [p EXCEPT !.mEqualizerBands[k.i] = v]
    ELSE [p EXCEPT ![k.f] = v]

\* the parameters after the call c has returned
Apply(p, c) ==
    CASE c.op = "setVolume" -> setVolume(p, c.x)
      [] c.op = "setBassBoost" -> setBassBoost(p, c.x)
      [] c.op = "setVirtualizer" -> setVirtualizer(p, c.x)
      [] c.op = "setEqualizerBand" -> setEqualizerBand(p, c.n, c.x)
      [] c.op = "setCompressor" -> setCompressor(p, c.x, c.y, c.z, c.w)
      [] c.op = "setCompressorStrength" -> setCompressorStrength(p, c.x)
      [] c.op = "setLimiter" -> setLimiter(p, c.x)
      [] c.op = "setSurround3D" -> setSurround3D(p, c.x)
      [] c.op = "setRoomSize" -> setRoomSize(p, c.x)
      [] c.op = "setSurroundLevel" -> setSurroundLevel(p, c.x)
      [] c.op = "setSurroundMode" -> setSurroundMode(p, c.n)
      [] c.op = "setHeadphoneSurround" -> setHeadphoneSurround(p, c.b)
      [] c.op = "setHeadphoneType" -> setHeadphoneType(p, c.n)
      [] c.op = "setClarity" -> setClarity(p, c.x)
      [] c.op = "setTubeWarmth" -> setTubeWarmth(p, c.x)
      [] c.op = "setSpectrumExtension" -> setSpectrumExtension(p, c.x)
      [] c.op = "setStereoBalance" -> setStereoBalance(p, c.x)
      [] c.op = "setChannelSeparation" -> setChannelSeparation(p, c.x)
      [] c.op = "setTrebleBoost" -> setTrebleBoost(p, c.x)
      [] c.op = "setVolumeLeveler" -> setVolumeLeveler(p, c.x)
      [] c.op = "setTempo" -> setTempo(p, c.x)
      [] c.op = "setPitch" -> setPitch(p, c.x)
      [] c.op = "setDynamicRange" -> setDynamicRange(p, c.x)
      [] c.op = "setLoudnessGain" -> setLoudnessGain(p, c.x)
      [] c.op = "setReverb" -> setReverb(p, c.n, c.x)

\* the member a setter of one knob stores
StoredMember ==
    [ setVolume |-> "mVolume", setBassBoost |-> "mBassBoost",
      setVirtualizer |-> "mVirtualizer", setLimiter |-> "mLimiterCeiling",
      setSurround3D |-> "mSurround3D", setRoomSize |-> "mRoomSize",
      setSurroundLevel |-> "mSurroundLevel",
      setHeadphoneSurround |-> "mHeadphoneSurround",
      setHeadphoneType |-> "mHeadphoneType", setClarity |-> "mClarity",
      setTubeWarmth |-> "mTubeWarmth", setSpectrumExtension |-> "mSpectrumExtension",
      setStereoBalance |-> "mStereoBalance",
      setChannelSeparation |-> "mChannelSeparation",
      setTrebleBoost |-> "mTrebleBoost", setVolumeLeveler |-> "mVolumeLeveler",
      setTempo |-> "mTempo", setLoudnessGain |-> "mLoudnessGain" ]

\* the knobs the call c stores, in the order of its statements
StoreOrder(c) ==
    LET Members(ms) == [i \in 1 .. Len(ms) |-> Knob(ms[i], 0)]
    IN  CASE c.op = "setSurroundMode" ->
               Members(<<"mSurroundMode">>
                       \o (IF c.n = 0 THEN <<"mSurround3D">>
                           ELSE IF c.n \in 1 .. 4
                           THEN <<"mSurround3D", "mRoomSize", "mSurroundLevel">>
                           ELSE <<>>)
                       \o (IF c.n = 3 THEN <<"mHeadphoneSurround">> ELSE <<>>))
          [] c.op = "setCompressor" ->
               Members(<<"mCompressorThreshold", "mCompressorRatio",
                         "mCompressorAttack", "mCompressorRelease">>)
          [] c.op = "setCompressorStrength" ->
               Members(<<"mCompressorStrength", "mCompressorThreshold",
                         "mCompressorRatio">>)
          [] c.op = "setDynamicRange" ->
               Members(<<"mDynamicRange">>
                       \o (IF FGt[FSub[10000, c.x], 100]
                           THEN <<"mCompressorStrength", "mCompressorThreshold",
                                  "mCompressorRatio">>
                           ELSE <<>>))
          [] c.op = "setReverb" -> Members(<<"mReverbPreset", "mReverbWet">>)
          [] c.op = "setPitch" -> Members(<<"mPitchSemitones", "mPitchRatio">>)
          [] c.op = "setEqualizerBand" ->
               IF c.n >= 0 /\ c.n < kNumEqualizerBands
               THEN <<Knob("mEqualizerBands", c.n)>> ELSE <<>>
          [] OTHER -> Members(<<StoredMember[c.op]>>)

\* the stores of the call c: the knob and the value of each; no setter
\* reads a knob, so the values depend on the arguments only
Stores(c) ==
    [i \in 1 .. Len(StoreOrder(c)) |->
        [k |-> StoreOrder(c)[i], v |-> load(Apply(DefaultParams, c), StoreOrder(c)[i])]]

\* A load of a render call: the knob, the stage it belongs to, and whether
\* it is made inside the stage's apply function, which runs only when the
\* stage's test in processAudio passed.
Tested(stage, f) == [k |-> Knob(f, 0), stage |-> stage, inner |-> FALSE]

Inside(stage, f) == [k |-> Knob(f, 0), stage |-> stage, inner |-> TRUE]

\* the loads of processAudio in the order of its statements
LoadPlan(channelCount) ==
    << Tested("volumeLeveler", "mVolumeLeveler"), Inside("volumeLeveler", "mVolumeLeveler"),
       Tested("bassBoost", "mBassBoost"), Inside("bassBoost", "mBassBoost"),
       Tested("trebleBoost", "mTrebleBoost"), Inside("trebleBoost", "mTrebleBoost") >>
    \o [i \in 1 .. kNumEqualizerBands |->
           [k |-> Knob("mEqualizerBands", i - 1), stage |-> "equalizer", inner |-> FALSE]]
    \o << Tested("clarity", "mClarity"), Inside("clarity", "mClarity"),
          Tested("tubeWarmth", "mTubeWarmth"), Inside("tubeWarmth", "mTubeWarmth"),
          Tested("spectrumExtension", "mSpectrumExtension"),
          Inside("spectrumExtension", "mSpectrumExtension"),
          Tested("compressor", "mCompressorStrength"),
          Inside("compressor", "mCompressorThreshold"),
          Inside("compressor", "mCompressorRatio"),
          Inside("compressor", "mCompressorAttack"),
          Inside("compressor", "mCompressorRelease"),
          Tested("loudnessGain", "mLoudnessGain"),
          Tested("reverb", "mReverbPreset"), Inside("reverb", "mReverbPreset"),
          Inside("reverb", "mReverbWet") >>
    \o (IF channelCount = 2
        THEN << Tested("virtualizer", "mVirtualizer"), Inside("virtualizer", "mVirtualizer"),
                Tested("surround3D", "mSurround3D"), Inside("surround3D", "mSurround3D"),
                Inside("surround3D", "mRoomSize"), Inside("surround3D", "mSurroundLevel"),
                Inside("surround3D", "mHeadphoneSurround"),
                Inside("surround3D", "mHeadphoneType"),
                Tested("channelSeparation", "mChannelSeparation"),
                Inside("channelSeparation", "mChannelSeparation"),
                Tested("stereoBalance", "mStereoBalance"),
                Inside("stereoBalance", "mStereoBalance") >>
        ELSE <<>>)
    \o << Tested("limiter", "mLimiterCeiling"),
          Tested("volume", "mVolume"), Inside("volume", "mVolume") >>

\* the test processAudio makes on the value v it loaded before it calls the
\* apply function of a stage
TestPasses(stage, v) ==
    CASE stage = "reverb" -> v > 0
      [] stage = "channelSeparation" -> FGt[FAbs[FSub[v, 5000]], 100]
      [] stage = "stereoBalance" -> FGt[FAbs[v], 100]
      [] stage = "volume" -> FGt[FAbs[FSub[v, 10000]], 10]
      [] OTHER -> FGt[v, 100]

\* the control thread and the render thread start on a fresh engine
RaceWorkloads ==
    { <<IntCall("setSurroundMode", 2)>>,
      <<IntCall("setSurroundMode", 3), FloatCall("setRoomSize", -10000)>>,
      <<FloatCall("setSurround3D", 7000), IntCall("setSurroundMode", 0)>>,
      <<FloatCall("setCompressorStrength", 10000), FloatCall("setDynamicRange", 5000)>>,
      <<Call("setReverb", 3, FALSE, 5000, 0, 0, 0), FloatCall("setVolume", 50000)>>,
      <<Call("setEqualizerBand", 0, FALSE, 30000, 0, 0, 0), FloatCall("setPitch", 30000)>>,
      <<FloatCall("setBassBoost", 7000), FloatCall("setBassBoost", -10000)>>,
      <<FloatCall("setVolume", 5000), FloatCall("setVolume", 10005)>> }

RaceInit ==
    /\ params = DefaultParams
    /\ st = InitialState
    /\ script \in RaceWorkloads
    /\ calls = <<>>
    /\ pre = [params |-> DefaultParams, st |-> InitialState]
    /\ audio = NoAudio
    /\ \E ch \in ChannelCounts : race = [NoRace EXCEPT !.channelCount = ch]
    /\ control = NoControl
    /\ jni = NoJni

\* the control thread enters its next setter call
ControlCall ==
    /\ race.pending = <<>>
    /\ script # <<>>
    /\ race' = [race EXCEPT !.pending = Stores(Head(script))]
    /\ script' = Tail(script)
    /\ calls' = Append(calls, Head(script))
    /\ UNCHANGED <<params, st, pre, audio, control, jni>>

\* the control thread makes the next store of the setter call it is in
ControlStore ==
    /\ race.pending # <<>>
    /\ LET s == Head(race.pending)
       IN  /\ params' = store(params, s.k, s.v)
           /\ race' = [race EXCEPT !.pending = Tail(@),
                                   !.written[s.k] = @ \cup {s.v}]
    /\ UNCHANGED <<st, script, calls, pre, audio, control, jni>>

\* The render thread reaches the next load of processAudio and makes it,
\* or, the load being inside a stage whose test failed, passes it by.
RenderLoad ==
    /\ Len(race.reads) < Len(LoadPlan(race.channelCount))
    /\ LET plan == LoadPlan(race.channelCount)
           e == plan[Len(race.reads) + 1]
           test == CHOOSE j \in 1 .. Len(plan) :
                       plan[j].stage = e.stage /\ ~plan[j].inner
           skipped == e.inner /\ ~TestPasses(e.stage, race.reads[test].v)
       IN  race' = [race EXCEPT !.reads =
                       Append(@, [skipped |-> skipped,
                                  v |-> IF skipped THEN 0 ELSE load(params, e.k)])]
    /\ UNCHANGED <<params, st, script, calls, pre, audio, control, jni>>

RaceNext == ControlCall \/ ControlStore \/ RenderLoad

RaceSpec == RaceInit /\ [][RaceNext]_vars

\* ------------------------------------------------------------------------
\* setSurroundMode called from several control threads at the same time:
\* the stores of the calls, one at a time
\* ------------------------------------------------------------------------

\* each control thread calls setSurroundMode once, with a mode in 1..4
ModeWorkloads == {<<IntCall("setSurroundMode", mode)>> : mode \in 1 .. 4}

ModeInit ==
    /\ params = DefaultParams
    /\ st = InitialState
    /\ script = <<>>
    /\ calls = <<>>
    /\ pre = [params |-> DefaultParams, st |-> InitialState]
    /\ audio = NoAudio
    /\ race = NoRace
    /\ control \in [ControlThreads -> {[todo |-> w, pending |-> <<>>] : w \in ModeWorkloads}]
    /\ jni = NoJni

\* the control thread t enters its next setter call
ModeCall(t) ==
    /\ control[t].pending = <<>>
    /\ control[t].todo # <<>>
    /\ control' = [control EXCEPT ![t].pending = Stores(Head(control[t].todo)),
                                  ![t].todo = Tail(@)]
    /\ calls' = Append(calls, Head(control[t].todo))
    /\ UNCHANGED <<params, st, script, pre, audio, race, jni>>

\* the control thread t makes the next store of the setter call it is in
ModeStore(t) ==
    /\ control[t].pending # <<>>
    /\ params' = store(params, Head(control[t].pending).k, Head(control[t].pending).v)
    /\ control' = [control EXCEPT ![t].pending = Tail(@)]
    /\ UNCHANGED <<st, script, calls, pre, audio, race, jni>>

ModeNext == \E t \in ControlThreads : ModeCall(t) \/ ModeStore(t)

ModeSpec == ModeInit /\ [][ModeNext]_vars

\* ------------------------------------------------------------------------
\* jni_bridge.cpp: the static sEngine, nativeCreate and nativeDestroy on one
\* thread, the other native calls on another
\* ------------------------------------------------------------------------

\* the number of native calls made in a run
MaxJniCalls == 4

\* the native calls that use the engine: nativeSetVolume(0.5),
\* nativeSetBassBoost(0.7), nativeProcessAudio, nativeGetVolume and
\* nativeGetBassBoost
JniCalls ==
    { FloatCall("setVolume", 5000), FloatCall("setBassBoost", 7000), Render,
      IntCall("getVolume", 0), IntCall("getBassBoost", 0) }

\* what a native getter returns when sEngine is null
JniDefault(op) == IF op \in {"getVolume", "getTempo"} THEN 10000 ELSE 0

\* what a native call returns to its caller when it runs on the engine:
\* the value of the getter, and 0 for the calls that return void
JniReturn(p, c) ==
    CASE c.op = "getVolume" -> getVolume(p)
      [] c.op = "getBassBoost" -> getBassBoost(p)
      [] OTHER -> 0

\* the buffer nativeProcessAudio passes: one frame of one channel, 0.4
JniBuffer == <<4000>>

\* a native call that has returned: the call, how it ended ("noop": sEngine
\* was null at the test; "ran": on the live engine; "released": on an engine
\* that nativeDestroy had already released; "null": through the null
\* sEngine), and the value returned
JniRan(c, outcome, value) == [c |-> c, outcome |-> outcome, value |-> value]

\* the parameters, the processing state and sEngine before the last step of
\* a native call, and the step
JniPre(p, s, sEngine, step) == [params |-> p, st |-> s, sEngine |-> sEngine, step |-> step]

JniInit ==
    /\ params = DefaultParams
    /\ st = InitialState
    /\ script = <<>>
    /\ calls = <<>>
    /\ pre = JniPre(DefaultParams, InitialState, 0, "none")
    /\ audio = NoAudio
    /\ race = NoRace
    /\ control = NoControl
    /\ jni = NoJni

\* nativeCreate: a new engine if sEngine is null, nothing otherwise.  The
\* call counter of processAudio is static and outlives the engines.
NativeCreate ==
    /\ Len(calls) < MaxJniCalls
    /\ calls' = Append(calls, IntCall("nativeCreate", 0))
    /\ pre' = JniPre(params, st, jni.sEngine, "nativeCreate")
    /\ IF jni.sEngine = 0
       THEN /\ jni' = [jni EXCEPT !.sEngine = jni.created + 1, !.created = @ + 1]
            /\ params' = DefaultParams
            /\ st' = [InitialState EXCEPT !.bufferCount = st.bufferCount]
       ELSE UNCHANGED <<jni, params, st>>
    /\ UNCHANGED <<script, audio, race, control>>

\* nativeDestroy: sEngine.reset() releases the engine, if there is one, and
\* leaves sEngine null
NativeDestroy ==
    /\ Len(calls) < MaxJniCalls
    /\ calls' = Append(calls, IntCall("nativeDestroy", 0))
    /\ pre' = JniPre(params, st, jni.sEngine, "nativeDestroy")
    /\ jni' = [jni EXCEPT !.sEngine = 0, !.released = @ \cup ({jni.sEngine} \ {0})]
    /\ UNCHANGED <<params, st, script, audio, race, control>>

\* The first half of nativeProcessAudio, of a nativeSet* and of a
\* nativeGet*: the test of sEngine.  With sEngine null the call returns (a
\* getter returns its default); otherwise it goes on to use the engine.
NativeTest ==
    /\ Len(calls) < MaxJniCalls
    /\ jni.inCall = NoCall
    /\ \E c \in JniCalls :
          /\ calls' = Append(calls, c)
          /\ jni' = IF jni.sEngine = 0
                    THEN [jni EXCEPT !.ran = Append(@, JniRan(c, "noop", JniDefault(c.op)))]
                    ELSE [jni EXCEPT !.inCall = c, !.ptr = jni.sEngine]
    /\ pre' = JniPre(params, st, jni.sEngine, "test")
    /\ UNCHANGED <<params, st, script, audio, race, control>>

\* The second half: sEngine->call(...).  No lock is held between the test
\* and the use, so nativeDestroy may have released the engine the test
\* saw.  The call then uses the pointer the test saw or the one sEngine
\* holds now, as the build has it: it runs on the released engine, goes
\* through the null sEngine, or runs on the engine created since.
NativeUse ==
    /\ jni.inCall # NoCall
    /\ \E c \in {jni.inCall} : \E target \in {jni.ptr, jni.sEngine} :
          \E outcome \in {IF target = 0 THEN "null"
                          ELSE IF target \in jni.released THEN "released"
                          ELSE "ran"} :
              /\ jni' = [jni EXCEPT
                            !.inCall = NoCall, !.ptr = 0,
                            !.ran = Append(@, JniRan(c, outcome,
                                                     IF outcome = "ran"
                                                     THEN JniReturn(params, c) ELSE 0))]
              /\ IF outcome = "ran" /\ c = Render
                 THEN /\ \E r \in {processAudio(params, st, FALSE, JniBuffer, 1, 1)} :
                            /\ st' = r.st
                            /\ audio' = [null |-> FALSE, numFrames |-> 1,
                                         channelCount |-> 1, input |-> JniBuffer,
                                         output |-> r.buf, stages |-> r.stages,
                                         entry |-> r.entry, access |-> r.access,
                                         logged |-> r.logged]
                      /\ UNCHANGED params
                 ELSE IF outcome = "ran" /\ c.op \notin GetterNames
                 THEN /\ params' = Apply(params, c)
                      /\ UNCHANGED <<st, audio>>
                 ELSE UNCHANGED <<params, st, audio>>
    /\ pre' = JniPre(params, st, jni.sEngine, "use")
    /\ UNCHANGED <<script, calls, race, control>>

JniNext == NativeCreate \/ NativeDestroy \/ NativeTest \/ NativeUse

JniSpec == JniInit /\ [][JniNext]_vars

\* ------------------------------------------------------------------------
\* properties
\* ------------------------------------------------------------------------

\* lo <= x <= hi for a float x: false of NaN and of the infinities
InRange(x, lo, hi) == IsFinite(x) /\ lo <= x /\ x <= hi

\* the last call was processAudio
Returned == call.op = "processAudio"

\* the last call was processAudio with a buffer and numFrames > 0
Processed == Returned /\ ~audio.null /\ audio.numFrames > 0

\* C1: after a processAudio call with a non-null buffer and numFrames > 0,
\* every one of the numFrames x channelCount samples lies in [-1, 1], whatever
\* the input buffer, the parameter values and the prior processing state.
C1_OutputInUnitRange ==
    Processed =>
        \A i \in 1 .. audio.numFrames * audio.channelCount :
            InRange(audio.output[i], -Scale, Scale)

\* C2: processAudio called with a null buffer or with numFrames <= 0 returns
\* leaving the buffer, every parameter and all of the processing state as
\* they were before the call.
C2_NoOp ==
    (Returned /\ (audio.null \/ audio.numFrames <= 0)) =>
        /\ audio.output = audio.input
        /\ params = pre.params
        /\ st = pre.st

\* C2 happens: a call with numFrames = 0, and one with a null buffer, on an
\* engine whose processing state an earlier call has written
C2_Witness ==
    /\ Returned
    /\ audio.null \/ audio.numFrames = 0
    /\ st.mBassState # InitialState.mBassState
    /\ st.bufferCount = 1

\* v clamped into [lo, hi], for a finite v
Clamped(v, lo, hi) == IF v < lo THEN lo ELSE IF v > hi THEN hi ELSE v

\* the setters of one float knob, the member each stores and the knob's range
FloatKnobs ==
    [ setVolume            |-> <<"mVolume", 0, 20000>>,
      setBassBoost         |-> <<"mBassBoost", 0, 10000>>,
      setVirtualizer       |-> <<"mVirtualizer", 0, 10000>>,
      setClarity           |-> <<"mClarity", 0, 10000>>,
      setTubeWarmth        |-> <<"mTubeWarmth", 0, 10000>>,
      setTrebleBoost       |-> <<"mTrebleBoost", 0, 10000>>,
      setVolumeLeveler     |-> <<"mVolumeLeveler", 0, 10000>>,
      setSpectrumExtension |-> <<"mSpectrumExtension", 0, 10000>>,
      setSurround3D        |-> <<"mSurround3D", 0, 10000>>,
      setRoomSize          |-> <<"mRoomSize", 0, 10000>>,
      setSurroundLevel     |-> <<"mSurroundLevel", 0, 10000>>,
      setChannelSeparation |-> <<"mChannelSeparation", 0, 10000>>,
      setLimiter           |-> <<"mLimiterCeiling", 5000, 10000>>,
      setStereoBalance     |-> <<"mStereoBalance", -10000, 10000>> ]

\* what the getters return
Getters ==
    [ mVolume |-> getVolume(params), mBassBoost |-> getBassBoost(params),
      mVirtualizer |-> getVirtualizer(params),
      mCompressorStrength |-> getCompressor(params),
      mLimiterCeiling |-> getLimiter(params), mSurround3D |-> getSurround3D(params),
      mClarity |-> getClarity(params), mTubeWarmth |-> getTubeWarmth(params),
      mReverbPreset |-> getReverbPreset(params), mReverbWet |-> getReverbWet(params),
      mTempo |-> getTempo(params), mPitchSemitones |-> getPitch(params) ]

\* C3: after a single-knob setter called with (finite) argument v, the stored
\* value, and the value the knob's getter returns, is v clamped into the
\* knob's range; setVolume(-1) stores 0, setVolume(5) stores 2 and
\* setEqualizerBand(0, 99) stores 12; on a fresh engine each getter returns
\* the knob's default.
C3_SettersClamp ==
    /\ call.op \in DOMAIN FloatKnobs =>
          LET k == FloatKnobs[call.op]
          IN  /\ params[k[1]] = Clamped(call.x, k[2], k[3])
              /\ k[1] \in DOMAIN Getters => Getters[k[1]] = Clamped(call.x, k[2], k[3])
    /\ (call.op = "setEqualizerBand" /\ call.n \in 0 .. 9) =>
          params.mEqualizerBands[call.n] = Clamped(call.x, -120000, 120000)
    /\ call.op = "setReverb" =>
          /\ getReverbPreset(params) = Clamped(call.n, 0, 6)
          /\ getReverbWet(params) = Clamped(call.x, 0, 10000)
    /\ call.op = "setHeadphoneType" => params.mHeadphoneType = Clamped(call.n, 0, 4)
    /\ call = FloatCall("setVolume", -10000) => getVolume(params) = 0
    /\ call = FloatCall("setVolume", 50000) => getVolume(params) = 20000
    /\ call = Call("setEqualizerBand", 0, FALSE, 990000, 0, 0, 0) =>
          params.mEqualizerBands[0] = 120000
    /\ calls = <<>> =>
          Getters = [ mVolume |-> 10000, mBassBoost |-> 0, mVirtualizer |-> 0,
                      mCompressorStrength |-> 0, mLimiterCeiling |-> 9500,
                      mSurround3D |-> 0, mClarity |-> 0, mTubeWarmth |-> 0,
                      mReverbPreset |-> 0, mReverbWet |-> 0, mTempo |-> 10000,
                      mPitchSemitones |-> 0 ]

\* C3 happens: setVolume(5) on an engine whose volume was 1 has stored 2
C3_Witness ==
    /\ call = FloatCall("setVolume", 50000)
    /\ pre.params.mVolume = 10000
    /\ getVolume(params) = 20000

\* C4: in every state reached by setter calls every stored knob is inside
\* its documented range; compressor strength, surround depth, room size and
\* surround level are in [0, 1] and the surround mode is in 0..4.
C4_KnobsInRange ==
    /\ \A op \in DOMAIN FloatKnobs :
          InRange(params[FloatKnobs[op][1]], FloatKnobs[op][2], FloatKnobs[op][3])
    /\ InRange(params.mCompressorStrength, 0, 10000)
    /\ \A b \in 0 .. 9 : InRange(params.mEqualizerBands[b], -120000, 120000)
    /\ params.mReverbPreset \in 0 .. 6
    /\ InRange(params.mReverbWet, 0, 10000)
    /\ params.mHeadphoneType \in 0 .. 4
    /\ params.mSurroundMode \in 0 .. 4

\* the knobs setSurroundMode writes
SurroundKnobs(p) == <<p.mSurround3D, p.mRoomSize, p.mSurroundLevel>>

\* C5 as stated: for every mode m in 0..4, setSurroundMode(m) overwrites
\* surround3D, roomSize and surroundLevel with the mode's preset whatever
\* their previous values (the values it leaves on a fresh engine), mode 2
\* yields 0.7, 0.7, 0.6, mode 3 forces headphoneSurround on and every other
\* mode leaves it unchanged.
C5_EveryModeOverwritesAll ==
    (call.op = "setSurroundMode" /\ call.n \in 0 .. 4) =>
        /\ SurroundKnobs(params) = SurroundKnobs(setSurroundMode(DefaultParams, call.n))
        /\ call.n = 2 => SurroundKnobs(params) = <<7000, 7000, 6000>>
        /\ call.n = 3 => params.mHeadphoneSurround
        /\ call.n # 3 => params.mHeadphoneSurround = pre.params.mHeadphoneSurround

\* C5, amended: for every mode m in 1..4, setSurroundMode(m) overwrites
\* surround3D, roomSize and surroundLevel with the mode's preset (Music 0.4,
\* 0.3, 0.5; Movie 0.7, 0.7, 0.6; Game 0.8, 0.4, 0.7; Podcast 0.2, 0.2, 0.3)
\* whatever their previous values; mode 0 sets surround3D to 0 and leaves
\* roomSize and surroundLevel as they were; mode 3 forces headphoneSurround
\* on and every other mode leaves it unchanged.
C5_ModePresets ==
    (call.op = "setSurroundMode" /\ call.n \in 0 .. 4) =>
        /\ SurroundKnobs(params) =
              CASE call.n = 0 -> <<0, pre.params.mRoomSize, pre.params.mSurroundLevel>>
                [] call.n = 1 -> <<4000, 3000, 5000>>
                [] call.n = 2 -> <<7000, 7000, 6000>>
                [] call.n = 3 -> <<8000, 4000, 7000>>
                [] call.n = 4 -> <<2000, 2000, 3000>>
        /\ call.n = 3 => params.mHeadphoneSurround
        /\ call.n # 3 => params.mHeadphoneSurround = pre.params.mHeadphoneSurround

\* C5 happens: setSurroundMode(0) after setRoomSize(0.7), and the room size
\* is still 0.7
C5_Witness ==
    /\ call = IntCall("setSurroundMode", 0)
    /\ pre.params.mRoomSize = 7000
    /\ SurroundKnobs(params) = <<0, 7000, 5000>>

\* the knobs that depend on the surround mode, and the stored mode
DependentKnobs ==
    {"mSurround3D", "mRoomSize", "mSurroundLevel", "mHeadphoneSurround", "mSurroundMode"}

\* the setters of one dependent knob and the member each stores
IndividualSetters ==
    [ setSurround3D |-> "mSurround3D", setRoomSize |-> "mRoomSize",
      setSurroundLevel |-> "mSurroundLevel",
      setHeadphoneSurround |-> "mHeadphoneSurround" ]

\* the call before the last was setSurroundMode and the last an individual
\* setter of a dependent knob
MacroThenIndividual(cs) ==
    /\ Len(cs) >= 2
    /\ cs[Len(cs) - 1].op = "setSurroundMode"
    /\ cs[Len(cs)].op \in DOMAIN IndividualSetters

\* C6: after setSurroundMode(m) and then an individual setter of one
\* dependent knob, that knob holds the clamped argument of the later call,
\* the other dependent knobs and the stored mode keep the values the macro
\* left, and a processAudio call after that changes none of them.
C6_IndividualOverride ==
    /\ MacroThenIndividual(calls) =>
          \A f \in DependentKnobs :
              params[f] =
                  IF f # IndividualSetters[call.op] THEN pre.params[f]
                  ELSE IF f = "mHeadphoneSurround" THEN call.b
                  ELSE Clamped(call.x, 0, 10000)
    /\ (Returned /\ MacroThenIndividual(SubSeq(calls, 1, Len(calls) - 1))) =>
          \A f \in DependentKnobs : params[f] = pre.params[f]

\* C6 happens: setRoomSize(-1) after setSurroundMode(2) has stored 0 over
\* the preset 0.7, and the buffer processed after it left that in place
C6_Witness ==
    /\ calls = <<IntCall("setSurroundMode", 2), FloatCall("setRoomSize", -10000), Render>>
    /\ pre.params.mRoomSize = 0
    /\ SurroundKnobs(params) = <<7000, 0, 6000>>

\* C7: after setCompressorStrength(s), for any s, the stored threshold lies
\* in [-20, -10] dB and the stored ratio in [1, 8], they are
\* -20 + 10 * s' and 1 + 7 * s' of the stored 0..1 strength s', and the
\* compressor attack and release are unchanged.
C7_StrengthMaps ==
    call.op = "setCompressorStrength" =>
        /\ InRange(params.mCompressorThreshold, -200000, -100000)
        /\ InRange(params.mCompressorRatio, 10000, 80000)
        /\ params.mCompressorThreshold = -200000 + 10 * params.mCompressorStrength
        /\ params.mCompressorRatio = 10000 + 7 * params.mCompressorStrength
        /\ params.mCompressorAttack = pre.params.mCompressorAttack
        /\ params.mCompressorRelease = pre.params.mCompressorRelease

\* C8: every call setDynamicRange(r) with r in [0, 1] leaves the threshold
\* -20 + 10 * r and the ratio 1 + 7 * (1 - r), whatever they were before;
\* setDynamicRange(1) leaves ratio 1 and threshold -10.
C8_DynamicRangeMaps ==
    (call.op = "setDynamicRange" /\ InRange(call.x, 0, Scale)) =>
        /\ params.mCompressorThreshold = -200000 + 10 * call.x
        /\ params.mCompressorRatio = 10000 + 7 * (Scale - call.x)
        /\ call.x = Scale =>
              params.mCompressorRatio = 10000 /\ params.mCompressorThreshold = -100000

\* the order of the stages as C9 states it
StatedOrder ==
    << "volumeLeveler", "bassBoost", "trebleBoost", "equalizer", "clarity",
       "tubeWarmth", "spectrumExtension", "compressor", "loudnessGain", "reverb",
       "virtualizer", "surround3D", "channelSeparation", "stereoBalance",
       "limiter", "volume", "hardClip" >>

StereoStages == {"virtualizer", "surround3D", "channelSeparation", "stereoBalance"}

\* the place of a stage in the stated order, 0 for a stage that is not in it
Place(stage) ==
    IF \E i \in 1 .. Len(StatedOrder) : StatedOrder[i] = stage
    THEN CHOOSE i \in 1 .. Len(StatedOrder) : StatedOrder[i] = stage
    ELSE 0

\* C9: in every processAudio call with valid geometry the stages that touch
\* the buffer do so in the stated order, the four stereo stages only when
\* channelCount is 2, no stage twice, and the hard clip last.
C9_StageOrder ==
    Processed =>
        /\ \A i \in 1 .. Len(audio.stages) : Place(audio.stages[i]) > 0
        /\ \A i, j \in 1 .. Len(audio.stages) :
              i < j => Place(audio.stages[i]) < Place(audio.stages[j])
        /\ audio.stages # <<>>
        /\ audio.stages[Len(audio.stages)] = "hardClip"
        /\ audio.channelCount # 2 =>
              \A i \in 1 .. Len(audio.stages) : audio.stages[i] \notin StereoStages

\* C9 happens: a stereo call in which all seventeen stages ran, and the
\* master volume changed what the limiter had left
C9_Witness ==
    /\ Processed
    /\ audio.channelCount = 2
    /\ audio.stages = StatedOrder
    /\ \E i \in 1 .. 2 : AbsInt[audio.output[i]] = Scale

\* the bypass settings of C10: every effect strength 0, every equalizer band
\* 0, reverb preset 0, balance 0, channel separation 0.5, volume 1.0, and
\* the limiter ceiling at its default, 0.95
Bypass(p) ==
    /\ \A k \in {"mBassBoost", "mVirtualizer", "mCompressorStrength", "mSurround3D",
                  "mClarity", "mTubeWarmth", "mSpectrumExtension", "mTrebleBoost",
                  "mVolumeLeveler", "mLoudnessGain", "mStereoBalance"} : p[k] = 0
    /\ \A b \in 0 .. 9 : p.mEqualizerBands[b] = 0
    /\ p.mReverbPreset = 0
    /\ p.mChannelSeparation = 5000
    /\ p.mVolume = 10000
    /\ p.mLimiterCeiling = 9500

\* C10 as stated: with the bypass settings processAudio leaves every sample
\* equal to its input value, except that samples outside [-1, 1] are clipped
\* to [-1, 1].
C10_BypassIdentity ==
    (Processed /\ Bypass(pre.params)) =>
        \A i \in 1 .. audio.numFrames * audio.channelCount :
            audio.output[i] = Clamped(audio.input[i], -Scale, Scale)

\* C10, amended: with the bypass settings processAudio leaves every sample
\* of magnitude at most 0.95 (the default limiter ceiling) equal to its
\* input value and replaces every other sample x by 0.95 * tanh(x / 0.95);
\* the final clip to [-1, 1] then changes nothing.
C10_BypassUpToLimiter ==
    (Processed /\ Bypass(pre.params)) =>
        \A i \in 1 .. audio.numFrames * audio.channelCount :
            /\ audio.output[i] =
                  IF AbsInt[audio.input[i]] <= 9500 THEN audio.input[i]
                  ELSE FMul[9500, Tanh[FDiv[audio.input[i], 9500]]]
            /\ InRange(audio.output[i], -9500, 9500)

\* C10 happens: a bypassed call on the samples 0.97 and 0.4 that changed the
\* first, which was inside [-1, 1], and left the second
C10_Witness ==
    /\ Processed
    /\ Bypass(pre.params)
    /\ audio.input = <<9700, 4000>>
    /\ audio.output[1] < 9500
    /\ audio.output[2] = 4000

\* the place of a stage among the stages that ran in the last processAudio
\* call, 0 for a stage that did not run
Ran(stage) ==
    IF \E i \in 1 .. Len(audio.stages) : audio.stages[i] = stage
    THEN CHOOSE i \in 1 .. Len(audio.stages) : audio.stages[i] = stage
    ELSE 0

\* the buffer as a stage that ran found it, and as it left it
Into(stage) == audio.entry[Ran(stage)]

OutOf(stage) ==
    IF Ran(stage) < Len(audio.stages) THEN audio.entry[Ran(stage) + 1] ELSE audio.output

\* the samples of the last processAudio call
SampleIndex == 1 .. audio.numFrames * audio.channelCount

\* C11: for any input buffer and any stored ceiling c in [0.5, 1], right
\* after the limiter stage every sample has |sample| <= c; a sample that
\* went into the stage with |sample| <= c is unchanged and one above it is
\* c * tanh(sample / c).
C11_LimiterBound ==
    (Processed /\ InRange(pre.params.mLimiterCeiling, 5000, 10000)) =>
        LET c == pre.params.mLimiterCeiling
        IN  \A i \in SampleIndex :
                /\ InRange(OutOf("limiter")[i], -c, c)
                /\ ~FGt[FAbs[Into("limiter")[i]], c] =>
                      OutOf("limiter")[i] = Into("limiter")[i]
                /\ FGt[FAbs[Into("limiter")[i]], c] =>
                      OutOf("limiter")[i] = FMul[c, Tanh[FDiv[Into("limiter")[i], c]]]

\* the stored volumes compared: 0.5, 1.0, 1.0005 and 2.0
Volumes == {5000, 10000, 10005, 20000}

\* The last processAudio call made again with the stored volume v, on the
\* same input, the same other parameters and the same prior processing
\* state: the buffer the limiter left and the buffer just before the final
\* hard clip.
AtVolume(v) ==
    LET r == processAudio([pre.params EXCEPT !.mVolume = v], pre.st, audio.null,
                          audio.input, audio.numFrames, audio.channelCount)
        limiter == CHOOSE i \in 1 .. Len(r.stages) : r.stages[i] = "limiter"
    IN  [limited |-> r.entry[limiter + 1], preClip |-> r.entry[Len(r.entry)]]

\* b is a * v2 / v1, up to the rounding of the two products a and b
Scaled(a, b, v1, v2) ==
    IF IsFinite(a) /\ IsFinite(b)
    THEN 2 * AbsInt[b * v1 - a * v2] <= v1 + v2
    ELSE a = b

\* C12 as stated: for any two stored volumes 0 < v1 < v2 <= 2, with the
\* input, the other parameters and the prior state the same, the samples
\* just before the final hard clip with v2 are those with v1 times v2 / v1.
C12_VolumeRatio ==
    Processed =>
        \A r \in {[v \in Volumes |-> AtVolume(v)]} :
            \A v1, v2 \in Volumes :
                v1 < v2 =>
                    \A i \in SampleIndex :
                        Scaled(r[v1].preClip[i], r[v2].preClip[i], v1, v2)

\* the master volume stage runs: |volume - 1| > 0.001
VolumeApplied(v) == FGt[FAbs[FSub[v, 10000]], 10]

\* C12, amended: the limiter's output does not depend on the volume; just
\* before the final hard clip a sample is the limiter's output times v when
\* |v - 1| > 0.001 and the limiter's output itself otherwise; so for stored
\* volumes v1 < v2 that are 1.0 or differ from 1.0 by more than 0.001 the
\* samples with v2 are those with v1 times v2 / v1.
C12_VolumeScales ==
    Processed =>
        \A r \in {[v \in Volumes |-> AtVolume(v)]} :
            /\ \A v \in Volumes :
                  /\ r[v].limited = OutOf("limiter")
                  /\ \A i \in SampleIndex :
                        r[v].preClip[i] =
                            IF VolumeApplied(v) THEN FMul[r[v].limited[i], v]
                            ELSE r[v].limited[i]
            /\ \A v1, v2 \in {v \in Volumes : v = 10000 \/ VolumeApplied(v)} :
                  v1 < v2 =>
                      \A i \in SampleIndex :
                          Scaled(r[v1].preClip[i], r[v2].preClip[i], v1, v2)

\* C12 happens: the sample 0.4 is 0.2 before the clip at volume 0.5, 0.8 at
\* volume 2 and 0.4 at volume 1.0005
C12_Witness ==
    /\ Processed
    /\ audio.input = <<9700, 4000>>
    /\ AtVolume(5000).preClip[2] = 2000
    /\ AtVolume(20000).preClip[2] = 8000
    /\ AtVolume(10005).preClip[2] = 4000

\* the reverb state: the comb and allpass buffers and their write cursors
ReverbState(s) ==
    << s.mCombBuffer1, s.mCombBuffer2, s.mCombBuffer3, s.mCombBuffer4,
       s.mAllpassBuffer1, s.mAllpassBuffer2, s.mCombPos1, s.mCombPos2,
       s.mCombPos3, s.mCombPos4, s.mAllpassPos1, s.mAllpassPos2 >>

\* C13: when the reverb preset is 0 or the wet mix is below 0.01, the reverb
\* stage of a processAudio call touches no sample, and the comb buffers, the
\* allpass buffers and their six write cursors are after the call as they
\* were before it.
C13_ReverbOff ==
    (Processed /\ (pre.params.mReverbPreset = 0 \/ FLt[pre.params.mReverbWet, 100])) =>
        /\ Ran("reverb") = 0
        /\ ReverbState(st) = ReverbState(pre.st)

\* C13 happens: a buffer processed with preset 3 and wet mix 0.005, after an
\* earlier buffer went through the reverb and left its state written
C13_Witness ==
    /\ Processed
    /\ pre.params.mReverbPreset = 3
    /\ pre.params.mReverbWet = 50
    /\ audio.input = <<9700, 4000>>
    /\ ReverbState(st) # ReverbState(InitialState)
    /\ st.mCombPos1 = 2

\* the sum S of the stored gains of the ten bands
BandSum(p) ==
    LET Sum(i, acc) == FAdd[acc, p.mEqualizerBands[i]]
    IN  ForEach(Sum, 0, kNumEqualizerBands, 0)

\* C14: when at least one band magnitude is above 0.1 dB the equalizer
\* stage multiplies every sample by 10^((S / 10) / 20), S the sum of the ten
\* stored band gains (the factor for 0.6 dB when band 0 is +6 and the others
\* 0); when no band magnitude is above 0.1 dB it leaves the buffer alone.
C14_EqualizerAverage ==
    Processed =>
        IF \E b \in 0 .. 9 : FGt[FAbs[pre.params.mEqualizerBands[b]], 1000]
        THEN /\ Ran("equalizer") > 0
             /\ \A i \in SampleIndex :
                   OutOf("equalizer")[i] =
                       FMul[Into("equalizer")[i],
                            Pow[100000, FDiv[FDiv[BandSum(pre.params), 100000], 200000]]]
        ELSE Ran("equalizer") = 0

\* the load the render call made of member f inside a stage, if it has
\* made it
Loaded(stage, f) ==
    LET plan == LoadPlan(race.channelCount)
    IN  IF \E i \in 1 .. Len(race.reads) : plan[i] = Inside(stage, f)
        THEN race.reads[CHOOSE i \in 1 .. Len(race.reads) : plan[i] = Inside(stage, f)]
        ELSE [skipped |-> TRUE, v |-> 0]

\* C15: under any interleaving of setter calls with a render call, every
\* value the render call reads for a knob is that knob's default or a value
\* some setter call stored into that same knob.
C15_PerKnobFreshness ==
    \A i \in 1 .. Len(race.reads) :
        ~race.reads[i].skipped =>
            LET k == LoadPlan(race.channelCount)[i].k
            IN  \/ race.reads[i].v = load(DefaultParams, k)
                \/ race.reads[i].v \in race.written[k]

\* C15 happens: a render call concurrent with setSurroundMode(2) has read
\* surround3D = 0.7 from the new preset together with roomSize = 0.5 from
\* before the call, which has since stored roomSize = 0.7
C15_Witness ==
    /\ calls = <<IntCall("setSurroundMode", 2)>>
    /\ race.pending = <<>>
    /\ params.mRoomSize = 7000
    /\ ~Loaded("surround3D", "mSurround3D").skipped
    /\ Loaded("surround3D", "mSurround3D").v = 7000
    /\ ~Loaded("surround3D", "mRoomSize").skipped
    /\ Loaded("surround3D", "mRoomSize").v = 5000

\* C16: between entry and return a processAudio call acquires no lock, makes
\* no blocking or I/O call, logging included, and allocates nothing; it
\* changes the caller's buffer and the processing state only.  (The source
\* has no lock and no allocation in the render path; its one I/O call is the
\* latency line written to the log.)
C16_RenderPathQuiet ==
    Returned => (~audio.logged /\ params = pre.params)

\* the reverb cursors of a processing state
ReverbCursors(s) ==
    {s.mCombPos1, s.mCombPos2, s.mCombPos3, s.mCombPos4, s.mAllpassPos1, s.mAllpassPos2}

\* the read index the code computes for a delay at a cursor of a delay line
\* of the given capacity
ReadIndex(capacity, pos, delay) ==
    IF capacity = kMaxDelayFrames THEN DelayReadPos(pos, delay)
    ELSE ReverbReadPos(pos, delay)

ProcessingState(s) == [f \in DOMAIN s \ {"bufferCount"} |-> s[f]]

\* C18: the processing state is zero at construction, and every setter call
\* and every getter call leaves it as it was before the call: the filter
\* states, the compressor envelope, the leveler RMS, the delay and reverb
\* buffers and the cursors after the call are those before it.
C18_StateOwnedByRender ==
    /\ calls = <<>> => ProcessingState(st) = ProcessingState(InitialState)
    /\ (calls # <<>> /\ call.op # "processAudio") => st = pre.st

\* setSurroundMode switched the surround on, on an engine whose bass filter
\* state a render call had left non-zero
C18_Witness ==
    /\ Len(calls) = 3
    /\ call.op = "setSurroundMode"
    /\ calls[2].op = "processAudio"
    /\ st.mBassState # <<0, 0>>
    /\ st = pre.st

\* C19: a processAudio call with a buffer, numFrames > 0 and a channelCount
\* other than 2 runs none of the virtualizer, the 3D surround, the channel
\* separation and the stereo balance, whatever their knobs, and leaves the
\* two surround delay buffers and their write cursor as they were; a call in
\* which one of the four ran had channelCount 2.
C19_StereoOnly ==
    Processed =>
        /\ audio.channelCount # 2 =>
              /\ \A stage \in StereoStages : Ran(stage) = 0
              /\ st.mDelayBufferL = pre.st.mDelayBufferL
              /\ st.mDelayBufferR = pre.st.mDelayBufferR
              /\ st.mDelayWritePos = pre.st.mDelayWritePos
        /\ (\E stage \in StereoStages : Ran(stage) > 0) => audio.channelCount = 2

\* with the surround on, a stereo buffer went through the surround stage
\* and filled a cell of each delay buffer, and then a buffer of three
\* channels went through the chain
C19_Witness ==
    /\ Processed
    /\ audio.channelCount = 3
    /\ FGt[params.mSurround3D, 100]
    /\ pre.st.mDelayWritePos > 0
    /\ pre.st.mDelayBufferL # EmptyLine
    /\ pre.st.mDelayBufferR # EmptyLine
    /\ audio.output # audio.input

\* C20: the loudness makeup stage multiplies every sample by one gain that is
\* linear in the stored loudnessGain knob g and is never above +6 dB, a linear
\* factor of 2.0, so that no sample leaves the stage with more than twice
\* the magnitude it entered with; for g <= 0.01 the stage leaves the buffer
\* unchanged.
C20_LoudnessCeiling ==
    Processed =>
        IF FGt[params.mLoudnessGain, 100]
        THEN /\ Ran("loudnessGain") > 0
             /\ \A i \in SampleIndex :
                   /\ OutOf("loudnessGain")[i] =
                          FMul[Into("loudnessGain")[i],
                               FAdd[10000, FMul[params.mLoudnessGain, 15000]]]
                   /\ ~FGt[FAbs[OutOf("loudnessGain")[i]],
                           FMul[FAbs[Into("loudnessGain")[i]], 20000]]
        ELSE Ran("loudnessGain") = 0

\* the stages behind a test on their own strength knob that load the knob
\* again inside their apply function
GatedStages ==
    { "bassBoost", "trebleBoost", "clarity", "tubeWarmth", "spectrumExtension",
      "virtualizer", "volumeLeveler", "channelSeparation", "stereoBalance", "volume" }

\* C21: within one render call, under every interleaving with setter calls,
\* the strength that bass boost, treble boost, clarity, tube warmth, spectrum
\* extension, virtualizer, volume leveler, channel separation, balance or
\* master volume works with is beyond the threshold of the stage's test:
\* the value the stage loaded for itself would have passed the test too.
C21_GateValueApplied ==
    \A i \in 1 .. Len(race.reads) :
        (/\ LoadPlan(race.channelCount)[i].inner
         /\ LoadPlan(race.channelCount)[i].stage \in GatedStages
         /\ ~race.reads[i].skipped)
        => TestPasses(LoadPlan(race.channelCount)[i].stage, race.reads[i].v)

\* the preset of a surround mode in 1..4: surround3D, roomSize, surroundLevel
ModePreset(mode) ==
    CASE mode = 1 -> <<4000, 3000, 5000>>
      [] mode = 2 -> <<7000, 7000, 6000>>
      [] mode = 3 -> <<8000, 4000, 7000>>
      [] mode = 4 -> <<2000, 2000, 3000>>

\* every setSurroundMode call has been made and has returned
ModesReturned ==
    /\ calls # <<>>
    /\ \A t \in ControlThreads : control[t].todo = <<>> /\ control[t].pending = <<>>

\* C22: when only setSurroundMode calls with modes in 1..4 are made, from
\* several control threads at the same time, then once every call has
\* returned the stored surround3D, roomSize and surroundLevel are the preset
\* of the stored surround mode.
C22_ModePresetStored ==
    ModesReturned =>
        <<params.mSurround3D, params.mRoomSize, params.mSurroundLevel>>
            = ModePreset(params.mSurroundMode)

\* C23: after setSurroundMode(m), for any integer m, the stored surround
\* mode is m clamped into 0..4 and the dependent knobs hold the preset of the
\* stored mode: surround3D, roomSize and surroundLevel of modes 1..4 (and
\* headphoneSurround on in mode 3), surround3D = 0 in mode 0;
\* setSurroundMode(9) stores mode 4 and 0.2, 0.2, 0.3.
C23_ClampedModePreset ==
    call.op = "setSurroundMode" =>
        /\ params.mSurroundMode = Clamped(call.n, 0, 4)
        /\ IF params.mSurroundMode = 0 THEN params.mSurround3D = 0
           ELSE <<params.mSurround3D, params.mRoomSize, params.mSurroundLevel>>
                    = ModePreset(params.mSurroundMode)
        /\ params.mSurroundMode = 3 => params.mHeadphoneSurround
        /\ call.n = 9 =>
              /\ params.mSurroundMode = 4
              /\ <<params.mSurround3D, params.mRoomSize, params.mSurroundLevel>>
                    = <<2000, 2000, 3000>>

\* C24: through the JNI bridge the calls only ever run on a live engine.  A
\* native call made while no engine exists leaves the parameters and the
\* processing state as they were, and a getter then returns its default;
\* nativeCreate on an existing engine keeps the engine, its parameters and
\* its state; and under every interleaving of nativeDestroy with
\* nativeProcessAudio, a setter or a getter on another thread no call runs on
\* an engine that has been released or through a null sEngine.
C24_LiveEngineOnly ==
    /\ \A i \in 1 .. Len(jni.ran) :
          /\ jni.ran[i].outcome \in {"noop", "ran"}
          /\ jni.ran[i].outcome = "noop" => jni.ran[i].value = JniDefault(jni.ran[i].c.op)
    /\ (pre.step = "test" /\ pre.sEngine = 0) =>
          (jni.inCall = NoCall /\ params = pre.params /\ st = pre.st)
    /\ (pre.step = "nativeCreate" /\ pre.sEngine # 0) =>
          (jni.sEngine = pre.sEngine /\ params = pre.params /\ st = pre.st)

====
